---- MODULE Spec2Model ----
(***************************************************************************)
(* Verification model of the voice-core speech-to-text pipeline:           *)
(*   - AudioRecorder      (crates/voice-core/src/recorder.rs)              *)
(*   - XunfeiClient       (crates/voice-core/src/asr_client/xunfei.rs)     *)
(*   - OutputHandler      (crates/voice-core/src/output.rs)                *)
(*   - BaiduClient        (crates/voice-core/src/asr_client/baidu.rs)      *)
(*   - WhisperTranscriber (crates/voice-core/src/transcriber.rs)           *)
(*   - WorkspaceManager   (src/workspace/manager.rs)                       *)
(* Each component has its own specification (SpecRecorder, SpecXunfei,     *)
(* SpecOutput, SpecBaidu, SpecWhisper, SpecWorkspace); the variables of    *)
(* the other components stay at their constructed value.                   *)
(***************************************************************************)
EXTENDS Integers, Sequences, FiniteSets, TLC

VARIABLES
    \* ---- AudioRecorder (recorder.rs:21-34) ----
    is_recording,   \* Arc<AtomicBool>
    samples,        \* Arc<Mutex<Vec<i16>>>
    volume_level,   \* Arc<AtomicU32>
    start_time,     \* Option<Instant>
    stream,         \* Option<cpal::Stream>
    rec_pc,         \* position of the control thread inside start/stop/cancel
    rec_ret,        \* value returned by the last finished recorder call
    noop_start,     \* whether the last recorder call was a start() that found
                    \* the recorder recording and returned at once
    cb_pc,          \* position of the audio callback
    cb_data,        \* the block (&[f32]) the running callback was handed
    blocks,         \* callbacks delivered in the current session (bounded)
    sessions,       \* effective start() calls so far (bounded)
    mic,            \* the blocks the audio subsystem may deliver, as shapes
    elapsed,        \* start_time.elapsed() in seconds, while start_time is Some
    poll_ret,       \* what the last get_volume / get_duration call returned
    cb_stale,       \* the running callback was invoked before start last
                    \* cleared the buffer
    stale,          \* the buffer holds samples appended by such a callback
    \* ---- XunfeiClient::transcribe (xunfei.rs:199-362) ----
    xf_audio,       \* audio.samples, the argument of the call
    peer,           \* the messages the remote end may deliver during the call
    xf_pc,          \* position of the calling task
    xf_i,           \* the send loop's index i
    send_error,     \* Option<VoiceError>
    wire,           \* the text messages written to the socket, in order
    xf_trace,       \* what the send loop did: <<"send", i>> and <<"sleep", ms>>
    rx_pc,          \* the spawned receive task: "idle", "running", "finished"
    rx_count,       \* messages the receive task has read (bounded)
    rx_last,        \* the message read.next() yielded last, if any
    rx_parse_errors,\* "parsing the response failed" lines the receive task logged
    responses,      \* the receive task's Vec<XunfeiResponse>
    xf_ret,         \* Option<Result<TranscribeResult>>: what transcribe returned
    xf_clock,       \* ms the call has spent sleeping or waiting since it connected
    \* ---- OutputHandler::output (output.rs:27-59) ----
    out_pc,         \* position inside output: "idle", "copy", "type"
    out_text,       \* the text argument
    out_mode,       \* the OutputMode argument
    out_typed,      \* characters of the text typed so far by this call
    out_log,        \* OS side effects of this call, in order
    clipboard,      \* the system clipboard's text
    focus,          \* what the focused application has received as keystrokes
    out_ret,        \* what the last output call returned
    out_calls,      \* output calls so far (bounded)
    \* ---- BaiduClient (baidu.rs:43-139) ----
    bd_cached,      \* cached_token of the instance the caller holds
    bd_audio,       \* the audio argument of the running call
    bd_pc,          \* position inside transcribe: "idle", "get_token", "post"
    bd_client,      \* cached_token of the local `client` of the running call
    bd_token,       \* the local `token` of the running call
    bd_exchanges,   \* token exchanges performed so far, each with the endpoint's
                    \* reply and the token it got
    bd_posts,       \* transcription requests submitted so far
    bd_resp,        \* the AsrResponse the last finished call parsed, if any
    bd_ret,         \* what the last transcribe call returned
    bd_calls,       \* transcribe calls so far (bounded)
    \* ---- WhisperTranscriber (transcriber.rs:12-113) ----
    wh_language,    \* self.language, fixed at construction
    wh_pc,          \* position inside transcribe: "idle", "state", "full", "collect"
    wh_samples,     \* the f32 samples handed to the engine
    wh_params,      \* the FullParams handed to the engine
    wh_engine,      \* what the engine's state holds after full()
    wh_queried,     \* whether this call asked the state for the detected language
    wh_ret,         \* what the last transcribe call returned
    wh_calls,       \* transcribe calls so far (bounded)
    \* ---- WorkspaceManager (workspace/manager.rs:14-253) ----
    ws_rows,        \* the rows of the table `workspaces`
    ws_lock,        \* the Mutex of the shared DbConnection: 0 when free, else
                    \* the clone of the manager whose call holds the guard
    ws_pc,          \* per clone, the position of its running call
    ws_arg,         \* per clone, the arguments and locals of its running call
    ws_ret,         \* what the call that finished last returned, and to which clone
    ws_ids,         \* ids generated so far by Uuid::new_v4 (each is fresh)
    ws_ops          \* calls started so far (bounded)

recVars == <<is_recording, samples, volume_level, start_time, stream,
             rec_pc, rec_ret, noop_start, cb_pc, cb_data, blocks, sessions,
             mic, elapsed, poll_ret, cb_stale, stale>>

xfVars == <<xf_audio, peer, xf_pc, xf_i, send_error, wire, xf_trace, rx_pc, rx_count,
            rx_last, rx_parse_errors, responses, xf_ret, xf_clock>>

outVars == <<out_pc, out_text, out_mode, out_typed, out_log, clipboard, focus,
             out_ret, out_calls>>

bdVars == <<bd_cached, bd_audio, bd_pc, bd_client, bd_token, bd_exchanges, bd_posts, bd_resp,
            bd_ret, bd_calls>>

whVars == <<wh_language, wh_pc, wh_samples, wh_params, wh_engine, wh_queried, wh_ret, wh_calls>>

wsVars == <<ws_rows, ws_lock, ws_pc, ws_arg, ws_ret, ws_ids, ws_ops>>

vars == <<recVars, xfVars, outVars, bdVars, whVars, wsVars>>

\* what an action of one component leaves alone
OnlyRecorder == UNCHANGED <<wsVars, xfVars, outVars, bdVars, whVars>>
OnlyXunfei == UNCHANGED <<wsVars, recVars, outVars, bdVars, whVars>>
OnlyOutput == UNCHANGED <<wsVars, recVars, xfVars, bdVars, whVars>>
OnlyBaidu == UNCHANGED <<wsVars, recVars, xfVars, outVars, whVars>>
OnlyWhisper == UNCHANGED <<recVars, xfVars, outVars, bdVars, wsVars>>
OnlyWorkspace == UNCHANGED <<recVars, xfVars, outVars, bdVars, whVars>>

\* ------------------------------------------------------------------ bounds
\* callbacks delivered per recording session
MaxBlocks == 2
\* effective start() calls per behaviour
MaxSessions == 2
\* longest audio handed to the streaming backend, in frames
MaxChunks == 3
\* messages the peer delivers to the receive task
MaxMsgs == 2
\* longest text handed to the output handler, in characters
MaxTextLen == 2
\* output calls per behaviour
MaxCalls == 2
\* transcribe calls on one batch backend instance
MaxBdCalls == 2
\* transcribe calls on one local-model transcriber
MaxWhCalls == 2
\* segments the local engine produces for one utterance
MaxSegments == 2
\* calls made on the clones of one workspace manager
MaxWsOps == 4
\* create calls among them
MaxWsCreates == 2

\* ------------------------------------------------------------------ helpers
None == [some |-> FALSE]
Some(v) == [some |-> TRUE, v |-> v]

Abs(x) == IF x < 0 THEN -x ELSE x
Min(a, b) == IF a <= b THEN a ELSE b
\* integer part of n/d, rounding toward zero (Rust `as` casts truncate)
Trunc(n, d) == IF n >= 0 THEN n \div d ELSE -((-n) \div d)

\* ================================================================== AudioRecorder
\* An f32 sample x is represented by the integer 1000 * x (all values used are
\* binary fractions, so the f32 arithmetic of the code is exact on them).

DEFAULT_SAMPLE_RATE == 16000
DEFAULT_CHANNELS == 1
I16_MAX == 32767
I16_MIN == -32768

\* AudioData::new: the samples with their rate and channel count; duration_secs
\* is samples.len() / (sample_rate * channels), kept as an exact fraction.
AudioDataNew(s, rate, channels) ==
    [samples |-> s, sample_rate |-> rate, channels |-> channels,
     duration_secs |-> [num |-> Len(s), den |-> rate * channels]]

\* AudioData::is_valid: duration_secs >= 0.5
IsValid(audio) == 2 * audio.duration_secs.num >= audio.duration_secs.den

\* fewest samples of a valid recording at the recorder's fixed format
MinValidSamples == (DEFAULT_SAMPLE_RATE * DEFAULT_CHANNELS) \div 2

\* The blocks the audio subsystem may hand to the callback, as <<length, value>>:
\* an empty block, a single quiet sample, and two long blocks (one sample short of
\* a quarter second of over-range input, and exactly a quarter second at full scale)
BlockShapes ==
    { <<0, 0>>, <<1, 500>>,
      <<MinValidSamples \div 2 - 1, -1500>>, <<MinValidSamples \div 2, 1000>> }
Block(shape) == [i \in 1..shape[1] |-> shape[2]]

\* sum of |x| over s[lo..hi]
RECURSIVE SumAbs(_, _, _)
SumAbs(s, lo, hi) ==
    IF lo > hi THEN 0
    ELSE IF lo = hi THEN Abs(s[lo])
    ELSE LET mid == (lo + hi) \div 2
         IN  SumAbs(s, lo, mid) + SumAbs(s, mid + 1, hi)

\* mutant of VolumeOf: the level is not capped
VolumeOf_Unclamped(data) ==
    IF Len(data) = 0 THEN 100
    ELSE Trunc(SumAbs(data, 1, Len(data)), 10 * Len(data))

\* recorder.rs:92-94: level = (avg * 100.0).min(100.0) as u32 with
\* avg = sum / len. On an empty block avg is 0/0 = NaN, f32::min returns the
\* other operand, so the level is 100.
VolumeOf(data) ==
    IF Len(data) = 0 THEN 100
    ELSE Min(Trunc(SumAbs(data, 1, Len(data)), 10 * Len(data)), 100)

\* recorder.rs:99: (s * i16::MAX as f32) as i16, a saturating truncating cast
ToI16(x) ==
    LET v == Trunc(x * I16_MAX, 1000)
    IN  IF v > I16_MAX THEN I16_MAX ELSE IF v < I16_MIN THEN I16_MIN ELSE v
ToI16Samples(data) == [i \in 1..Len(data) |-> ToI16(data[i])]

RetOk(op, audio) == [op |-> op, ok |-> TRUE, err |-> "", audio |-> audio]
RetErr(op, e) == [op |-> op, ok |-> FALSE, err |-> e, audio |-> <<>>]
NoRet == [op |-> "", ok |-> TRUE, err |-> "", audio |-> <<>>]

\* the blocks of a short session: an empty block, one quiet sample, two
\* over-range samples
PollShapes == { <<0, 0>>, <<1, 500>>, <<2, -1500>> }

NoPoll == [op |-> "", value |-> 0, locked |-> FALSE]

\* AudioRecorder::new (recorder.rs:38-47)
RecIdle ==
    /\ is_recording = FALSE
    /\ samples = <<>>
    /\ volume_level = 0
    /\ start_time = None
    /\ stream = None
    /\ rec_pc = "idle"
    /\ rec_ret = NoRet
    /\ noop_start = FALSE
    /\ cb_pc = "idle"
    /\ cb_data = <<>>
    /\ blocks = 0
    /\ sessions = 0
    /\ elapsed = 0
    /\ poll_ret = NoPoll
    /\ cb_stale = FALSE
    /\ stale = FALSE

RecInit == RecIdle /\ mic = BlockShapes

\* the recorder in front of a microphone that delivers short blocks
RecPollInit == RecIdle /\ mic = PollShapes

\* ---- the audio callback (recorder.rs:86-104), on the audio thread ----
\* It is invoked only while a stream exists; one already running when the stream
\* is dropped may still finish.
CallbackBegin ==
    /\ stream.some
    /\ cb_pc = "idle"
    /\ blocks < MaxBlocks
    /\ blocks' = blocks + 1
    /\ \E shape \in mic :
          IF ~is_recording
          THEN UNCHANGED <<cb_pc, cb_data>>
          ELSE cb_pc' = "volume" /\ cb_data' = Block(shape)
    /\ cb_stale' = FALSE
    /\ UNCHANGED noop_start
    /\ UNCHANGED <<is_recording, samples, volume_level, start_time, stream,
                   rec_pc, rec_ret, sessions>>
    /\ UNCHANGED <<mic, elapsed, poll_ret, stale>>
    /\ OnlyRecorder

\* recorder.rs:92-95
CallbackVolume ==
    /\ cb_pc = "volume"
    /\ volume_level' = VolumeOf(cb_data)
    /\ cb_pc' = "extend"
    /\ UNCHANGED noop_start
    /\ UNCHANGED <<is_recording, samples, start_time, stream, rec_pc, rec_ret,
                   cb_data, blocks, sessions>>
    /\ UNCHANGED <<mic, elapsed, poll_ret, cb_stale, stale>>
    /\ OnlyRecorder

\* recorder.rs:101: samples.lock() returns with the buffer mutex held. The
\* control thread holds the mutex only inside single steps (the clear of start
\* and of cancel, the clone of stop), so the mutex is free whenever this step
\* is taken.
CallbackLock ==
    /\ cb_pc = "extend"
    /\ cb_pc' = "locked"
    /\ UNCHANGED noop_start
    /\ UNCHANGED <<is_recording, samples, volume_level, start_time, stream, rec_pc,
                   rec_ret, cb_data, blocks, sessions>>
    /\ UNCHANGED <<mic, elapsed, poll_ret, cb_stale, stale>>
    /\ OnlyRecorder

\* recorder.rs:102-103: the block is appended and the mutex released
CallbackExtend ==
    /\ cb_pc = "locked"
    /\ samples' = samples \o ToI16Samples(cb_data)
    /\ cb_pc' = "idle"
    /\ cb_data' = <<>>
    /\ stale' = (stale \/ (cb_stale /\ cb_data # <<>>))
    /\ cb_stale' = FALSE
    /\ UNCHANGED noop_start
    /\ UNCHANGED <<is_recording, volume_level, start_time, stream, rec_pc,
                   rec_ret, blocks, sessions>>
    /\ UNCHANGED <<mic, elapsed, poll_ret>>
    /\ OnlyRecorder

\* ---- start (recorder.rs:50-123) ----
\* mutant of AlreadyRecording: start never takes itself for running
AlreadyRecording_Never(flag) == FALSE

\* recorder.rs:52: the test of the recording flag at the top of start
AlreadyRecording(flag) == flag

\* recorder.rs:51-58: already recording returns Ok at once; otherwise the
\* buffer is cleared first, under the buffer mutex (start waits for a
\* callback that holds it)
StartBegin ==
    /\ rec_pc = "idle"
    /\ is_recording \/ sessions < MaxSessions
    /\ IF AlreadyRecording(is_recording)
       THEN /\ rec_ret' = RetOk("start", <<>>)
            /\ noop_start' = TRUE
            /\ UNCHANGED <<samples, rec_pc, cb_stale, stale>>
       ELSE /\ cb_pc # "locked"
            /\ samples' = <<>>
            /\ rec_pc' = "start_open"
            /\ noop_start' = FALSE
            /\ cb_stale' = (cb_pc # "idle")
            /\ stale' = FALSE
            /\ UNCHANGED rec_ret
    /\ UNCHANGED <<is_recording, volume_level, start_time, stream, cb_pc,
                   cb_data, blocks, sessions>>
    /\ UNCHANGED <<mic, elapsed, poll_ret>>
    /\ OnlyRecorder

\* mutant of StartStores: the stream and the flag are stored whatever the
\* outcome
StartStores_Always(outcome) == TRUE

\* recorder.rs:64, 110, 115: each failure returns through `?` before the
\* stores of recorder.rs:117-119 are reached
StartStores(outcome) == outcome = "ok"

\* recorder.rs:61-122: device lookup, build_input_stream and play may each
\* fail; on success the stream is kept, the flag set and the start time taken.
\* (A callback between play() and the flag store sees the flag false and
\* returns without effect, so the three stores are taken as one step.)
StartOpen ==
    /\ rec_pc = "start_open"
    /\ rec_pc' = "idle"
    /\ \E outcome \in {"ok", "NoMicrophoneFound", "RecorderError"} :
          /\ IF StartStores(outcome)
             THEN /\ stream' = Some(sessions + 1)
                  /\ is_recording' = TRUE
                  /\ start_time' = Some(sessions + 1)
                  /\ elapsed' = 0
                  /\ sessions' = sessions + 1
                  /\ blocks' = 0
             ELSE UNCHANGED <<stream, is_recording, start_time, elapsed, sessions, blocks>>
          /\ rec_ret' = IF outcome = "ok" THEN RetOk("start", <<>>)
                        ELSE RetErr("start", outcome)
    /\ UNCHANGED noop_start
    /\ UNCHANGED <<samples, volume_level, cb_pc, cb_data>>
    /\ UNCHANGED <<mic, poll_ret, cb_stale, stale>>
    /\ OnlyRecorder

\* ---- stop (recorder.rs:126-156) ----
\* mutant of NotRecording: stop never takes the recorder for idle
NotRecording_Never(flag) == FALSE

\* recorder.rs:127: the test of the recording flag at the top of stop
NotRecording(flag) == ~flag

\* recorder.rs:127-132
StopBegin ==
    /\ rec_pc = "idle"
    /\ noop_start' = FALSE
    /\ IF NotRecording(is_recording)
       THEN /\ rec_ret' = RetErr("stop", "NotRecording")
            /\ UNCHANGED <<is_recording, rec_pc>>
       ELSE /\ is_recording' = FALSE
            /\ rec_pc' = "stop_drop"
            /\ UNCHANGED rec_ret
    /\ UNCHANGED <<samples, volume_level, start_time, stream, cb_pc, cb_data,
                   blocks, sessions>>
    /\ UNCHANGED <<mic, elapsed, poll_ret, cb_stale, stale>>
    /\ OnlyRecorder

\* mutant of TakeStream: the stream stays in the field
TakeStream_Keep(s) == s

\* recorder.rs:135, 178: self.stream.take() leaves None in the field and the
\* stream taken out is dropped
TakeStream(s) == None

\* recorder.rs:135-137
StopDrop ==
    /\ rec_pc = "stop_drop"
    /\ stream' = TakeStream(stream)
    /\ rec_pc' = "stop_lock"
    /\ UNCHANGED noop_start
    /\ UNCHANGED <<is_recording, samples, volume_level, start_time, rec_ret,
                   cb_pc, cb_data, blocks, sessions>>
    /\ UNCHANGED <<mic, elapsed, poll_ret, cb_stale, stale>>
    /\ OnlyRecorder

\* mutant of StopResult: the duration check is left out
StopResult_NoCheck(audio) == RetOk("stop", audio)

\* recorder.rs:151-155 on the freshly built AudioData
StopResult(audio) ==
    IF ~IsValid(audio) THEN RetErr("stop", "RecordingTooShort")
    ELSE RetOk("stop", audio)

\* recorder.rs:140-155: the buffer is cloned under the mutex (stop waits for a
\* callback that holds it) and judged
StopLock ==
    /\ rec_pc = "stop_lock"
    /\ cb_pc # "locked"
    /\ rec_ret' = StopResult(AudioDataNew(samples, DEFAULT_SAMPLE_RATE, DEFAULT_CHANNELS))
    /\ rec_pc' = "idle"
    /\ UNCHANGED noop_start
    /\ UNCHANGED <<is_recording, samples, volume_level, start_time, stream,
                   cb_pc, cb_data, blocks, sessions>>
    /\ UNCHANGED <<mic, elapsed, poll_ret, cb_stale, stale>>
    /\ OnlyRecorder

\* ---- cancel (recorder.rs:176-185) ----
CancelBegin ==
    /\ rec_pc = "idle"
    /\ noop_start' = FALSE
    /\ is_recording' = FALSE
    /\ rec_pc' = "cancel_drop"
    /\ UNCHANGED <<samples, volume_level, start_time, stream, rec_ret, cb_pc,
                   cb_data, blocks, sessions>>
    /\ UNCHANGED <<mic, elapsed, poll_ret, cb_stale, stale>>
    /\ OnlyRecorder

CancelDrop ==
    /\ rec_pc = "cancel_drop"
    /\ stream' = TakeStream(stream)
    /\ rec_pc' = "cancel_clear"
    /\ UNCHANGED noop_start
    /\ UNCHANGED <<is_recording, samples, volume_level, start_time, rec_ret,
                   cb_pc, cb_data, blocks, sessions>>
    /\ UNCHANGED <<mic, elapsed, poll_ret, cb_stale, stale>>
    /\ OnlyRecorder

\* recorder.rs:181-183: the buffer is cleared under the mutex
CancelClear ==
    /\ rec_pc = "cancel_clear"
    /\ cb_pc # "locked"
    /\ samples' = <<>>
    /\ stale' = FALSE
    /\ rec_pc' = "idle"
    /\ rec_ret' = RetOk("cancel", <<>>)
    /\ UNCHANGED noop_start
    /\ UNCHANGED <<is_recording, volume_level, start_time, stream, cb_pc,
                   cb_data, blocks, sessions>>
    /\ UNCHANGED <<mic, elapsed, poll_ret, cb_stale>>
    /\ OnlyRecorder

NextRecorder ==
    \/ CallbackBegin
    \/ CallbackVolume
    \/ CallbackLock
    \/ CallbackExtend
    \/ StartBegin
    \/ StartOpen
    \/ StopBegin
    \/ StopDrop
    \/ StopLock
    \/ CancelBegin
    \/ CancelDrop
    \/ CancelClear

\* ---- the polls (recorder.rs:158-168) and the passing of time ----
\* longest time followed after a start, in seconds
MaxElapsed == 75

\* recorder.rs:18: declared, and read nowhere in the recorder
MAX_RECORDING_DURATION == 60

\* mutant of Tick: the session is ended once it has lasted longer than
\* MAX_RECORDING_DURATION
Tick_AutoStop ==
    /\ start_time.some
    /\ elapsed < MaxElapsed
    /\ elapsed' = elapsed + 25
    /\ is_recording' = (is_recording /\ elapsed' <= MAX_RECORDING_DURATION)
    /\ UNCHANGED <<samples, volume_level, start_time, stream, rec_pc,
                   rec_ret, noop_start, cb_pc, cb_data, blocks, sessions>>
    /\ UNCHANGED <<mic, poll_ret, cb_stale, stale>>
    /\ OnlyRecorder

\* time passes, in steps of 25 s; start_time is never reset, so its elapsed()
\* keeps growing after the session has ended
Tick ==
    /\ start_time.some
    /\ elapsed < MaxElapsed
    /\ elapsed' = elapsed + 25
    /\ UNCHANGED <<is_recording, samples, volume_level, start_time, stream, rec_pc,
                   rec_ret, noop_start, cb_pc, cb_data, blocks, sessions>>
    /\ UNCHANGED <<mic, poll_ret, cb_stale, stale>>
    /\ OnlyRecorder

\* mutant of PollWaitsForBuffer: the polls take the buffer mutex
PollWaitsForBuffer_Always(op) == TRUE

\* recorder.rs:159-168: get_volume is one atomic load and get_duration reads
\* start_time; neither takes the buffer mutex
PollWaitsForBuffer(op) == FALSE

\* recorder.rs:159-161; `locked` notes whether the callback held the buffer
\* mutex during the call
GetVolume ==
    /\ rec_pc = "idle"
    /\ PollWaitsForBuffer("get_volume") => cb_pc # "locked"
    /\ poll_ret' = [op |-> "get_volume", value |-> volume_level,
                    locked |-> cb_pc = "locked"]
    /\ UNCHANGED <<is_recording, samples, volume_level, start_time, stream, rec_pc,
                   rec_ret, noop_start, cb_pc, cb_data, blocks, sessions>>
    /\ UNCHANGED <<mic, elapsed, cb_stale, stale>>
    /\ OnlyRecorder

\* recorder.rs:164-168: the seconds since start_time, 0 before the first start
GetDuration ==
    /\ rec_pc = "idle"
    /\ PollWaitsForBuffer("get_duration") => cb_pc # "locked"
    /\ poll_ret' = [op |-> "get_duration",
                    value |-> IF start_time.some THEN elapsed ELSE 0,
                    locked |-> cb_pc = "locked"]
    /\ UNCHANGED <<is_recording, samples, volume_level, start_time, stream, rec_pc,
                   rec_ret, noop_start, cb_pc, cb_data, blocks, sessions>>
    /\ UNCHANGED <<mic, elapsed, cb_stale, stale>>
    /\ OnlyRecorder

\* the recorder with its owner polling it while time passes
NextPolling ==
    \/ NextRecorder
    \/ Tick
    \/ GetVolume
    \/ GetDuration

\* ================================================================== XunfeiClient
\* A Rust String that is data (a recognised word, the result text) is a sequence
\* of characters; a byte is 0..255; a base64 text is a sequence of sextets 0..63
\* with 64 standing for the padding character '='.

FRAME_SIZE == 1280

\* xunfei.rs:219: samples.iter().flat_map(|s| s.to_le_bytes())
ToLeBytes(smps) ==
    [k \in 1..(2 * Len(smps)) |->
        LET u == (smps[(k + 1) \div 2] + 65536) % 65536
        IN  IF k % 2 = 1 THEN u % 256 ELSE u \div 256]

\* xunfei.rs:222: audio_bytes.chunks(FRAME_SIZE): each chunk takes the next
\* min(size, remaining) bytes until none are left
RECURSIVE Chunks(_, _)
Chunks(bytes, size) ==
    IF Len(bytes) = 0 THEN <<>>
    ELSE LET n == Min(size, Len(bytes))
         IN  <<SubSeq(bytes, 1, n)>> \o Chunks(SubSeq(bytes, n + 1, Len(bytes)), size)

\* BASE64.encode (STANDARD engine, with padding)
Base64Encode(b) ==
    LET n == Len(b)
        byte(i) == IF i <= n THEN b[i] ELSE 0
    IN  [k \in 1..(4 * ((n + 2) \div 3)) |->
            LET g  == (k - 1) \div 4
                b0 == byte(3 * g + 1)
                b1 == byte(3 * g + 2)
                b2 == byte(3 * g + 3)
            IN  CASE (k - 1) % 4 = 0 -> b0 \div 4
                  [] (k - 1) % 4 = 1 -> (b0 % 4) * 16 + b1 \div 16
                  [] (k - 1) % 4 = 2 -> IF 3 * g + 2 > n THEN 64
                                        ELSE (b1 % 16) * 4 + b2 \div 64
                  [] OTHER           -> IF 3 * g + 3 > n THEN 64 ELSE b2 % 64]

\* xunfei.rs:107-159: build_first_frame / build_continue_frame / build_last_frame
XunfeiData(status, chunk) ==
    [status |-> status, format |-> "audio/L16;rate=16000", encoding |-> "raw",
     audio |-> Base64Encode(chunk)]
build_first_frame(chunk) ==
    [common |-> [app_id |-> "app_id"],
     business |-> Some([language |-> "zh_cn", domain |-> "iat", accent |-> "mandarin",
                        vad_eos |-> 3000, dwa |-> Some("wpgs"), ptt |-> Some(1)]),
     data |-> XunfeiData(0, chunk)]
build_continue_frame(chunk) ==
    [common |-> [app_id |-> "app_id"], business |-> None, data |-> XunfeiData(1, chunk)]
build_last_frame(chunk) ==
    [common |-> [app_id |-> "app_id"], business |-> None, data |-> XunfeiData(2, chunk)]

\* xunfei.rs:283-292: the frame for chunk i (0-based) of total_chunks
BuildRequest(i, total_chunks, chunk) ==
    IF i = 0 THEN build_first_frame(chunk)
    ELSE IF i = total_chunks - 1 THEN build_last_frame(chunk)
    ELSE build_continue_frame(chunk)

\* serde_json::to_string(&request) (xunfei.rs:294, 374-422): business and
\* its dwa/ptt are left out when None (skip_serializing_if)
BusinessJson(b) ==
    [k \in {"language", "domain", "accent", "vad_eos"}
           \cup (IF b.dwa.some THEN {"dwa"} ELSE {})
           \cup (IF b.ptt.some THEN {"ptt"} ELSE {}) |->
        IF k \in {"dwa", "ptt"} THEN b[k].v ELSE b[k]]
ToJson(req) ==
    [k \in {"common", "data"} \cup (IF req.business.some THEN {"business"} ELSE {}) |->
        IF k = "business" THEN BusinessJson(req.business.v) ELSE req[k]]

\* ---- incoming messages ----
\* a text message is a JSON object, here a function from keys to values
WsA == << [cw |-> << [w |-> <<"a">>] >>] >>
WsBCD == << [cw |-> << [w |-> <<"b">>], [w |-> <<"c", "d">>] >>],
            [cw |-> <<>>],
            [cw |-> << [w |-> <<"e">>] >>] >>
PeerTexts ==
    { [code |-> 0, sid |-> "s", data |-> [status |-> 1, result |-> [ws |-> WsA]]],
      [code |-> 0, data |-> [status |-> 2, result |-> [ws |-> WsBCD, ls |-> TRUE]]],
      [code |-> 0, message |-> "success"],
      [code |-> 0, data |-> [status |-> 0]],
      [code |-> 10165, message |-> "invalid handle"],
      [code |-> 10110, data |-> [status |-> 2, result |-> [ws |-> WsA]]],
      [message |-> "no code"],
      [code |-> 0, data |-> [result |-> [ws |-> WsA]]] }
\* what read.next() can yield: a text, a close frame, a ping, any other frame,
\* a transport error, or the end of the stream
PeerMsgs ==
    { [type |-> "Text", json |-> t] : t \in PeerTexts }
      \cup { [type |-> k, json |-> <<>>] : k \in {"Close", "Ping", "Other", "Err", "End"} }

Opt(obj, key) == IF key \in DOMAIN obj THEN Some(obj[key]) ELSE None

\* serde_json::from_str::<XunfeiResponse> (xunfei.rs:240, 425-469): code is
\* required, so are data.status and result.ws when their parent is present
Parses(json) ==
    /\ "code" \in DOMAIN json
    /\ "data" \in DOMAIN json =>
          /\ "status" \in DOMAIN json.data
          /\ "result" \in DOMAIN json.data => "ws" \in DOMAIN json.data.result
FromJson(json) ==
    [code |-> json.code,
     message |-> Opt(json, "message"),
     sid |-> Opt(json, "sid"),
     data |-> IF "data" \in DOMAIN json
              THEN Some([status |-> json.data.status,
                         result |-> IF "result" \in DOMAIN json.data
                                    THEN Some([ws |-> json.data.result.ws,
                                               ls |-> Opt(json.data.result, "ls")])
                                    ELSE None])
              ELSE None]

\* xunfei.rs:243-247
IsLast(response) == IF response.data.some THEN response.data.v.status = 2 ELSE FALSE

\* xunfei.rs:162-194: parse_result
RECURSIVE CwText(_)
CwText(cw) == IF cw = <<>> THEN <<>> ELSE Head(cw).w \o CwText(Tail(cw))
RECURSIVE WsText(_)
WsText(ws) == IF ws = <<>> THEN <<>> ELSE CwText(Head(ws).cw) \o WsText(Tail(ws))
RespText(resp) ==
    IF resp.data.some
    THEN IF resp.data.v.result.some THEN WsText(resp.data.v.result.v.ws) ELSE <<>>
    ELSE <<>>
RECURSIVE FullText(_)
FullText(resps) == IF resps = <<>> THEN <<>> ELSE RespText(Head(resps)) \o FullText(Tail(resps))
\* mutant of parse_result: only the first candidate of each word is taken
RECURSIVE FirstCandidates(_)
FirstCandidates(resps) ==
    IF resps = <<>> THEN <<>>
    ELSE LET r == Head(resps)
             ws == IF r.data.some /\ r.data.v.result.some THEN r.data.v.result.v.ws ELSE <<>>
             RECURSIVE top(_)
             top(w) == IF w = <<>> THEN <<>>
                       ELSE (IF Head(w).cw = <<>> THEN <<>> ELSE Head(w).cw[1].w) \o top(Tail(w))
         IN  top(ws) \o FirstCandidates(Tail(resps))
parse_result_FirstCandidate(resps) ==
    [text |-> FirstCandidates(resps), language |-> Some("zh"), confidence |-> None,
     segments |-> IF FirstCandidates(resps) # <<>>
                  THEN << [start |-> 0, end |-> 0, text |-> FirstCandidates(resps)] >>
                  ELSE <<>>]

\* mutant of parse_result: a segment is made whether or not there is text
parse_result_AlwaysSegment(resps) ==
    [text |-> FullText(resps), language |-> Some("zh"), confidence |-> None,
     segments |-> << [start |-> 0, end |-> 0, text |-> FullText(resps)] >>]

parse_result(resps) ==
    LET full_text == FullText(resps)
    IN  [text |-> full_text,
         language |-> Some("zh"),
         confidence |-> None,
         segments |-> IF full_text # <<>>
                      THEN << [start |-> 0, end |-> 0, text |-> full_text] >>
                      ELSE <<>>]

VoiceError(kind, detail) == [kind |-> kind, detail |-> detail]
Ok(v) == [ok |-> TRUE, v |-> v]
Err(e) == [ok |-> FALSE, v |-> e]

\* mutant of CheckCodes: the last response with a non-zero code decides
RECURSIVE CheckCodes_Last(_)
CheckCodes_Last(resps) ==
    IF resps = <<>> THEN None
    ELSE IF CheckCodes_Last(Tail(resps)).some THEN CheckCodes_Last(Tail(resps))
    ELSE IF Head(resps).code # 0
         THEN Some([kind |-> "AsrError",
                    detail |-> <<"xunfei ASR error", Head(resps).code,
                                 IF Head(resps).message.some THEN Head(resps).message.v ELSE "">>])
         ELSE None

\* xunfei.rs:347-355: the first response with a non-zero code decides
RECURSIVE CheckCodes(_)
CheckCodes(resps) ==
    IF resps = <<>> THEN None
    ELSE IF Head(resps).code # 0
         THEN Some(VoiceError("AsrError",
                   <<"xunfei ASR error", Head(resps).code,
                     IF Head(resps).message.some THEN Head(resps).message.v ELSE "">>))
         ELSE CheckCodes(Tail(resps))

\* mutant of PostProcess: any send error fails the call
PostProcess_SendErrorFirst(err, resps) ==
    IF err.some THEN Err(err.v)
    ELSE IF CheckCodes(resps).some THEN Err(CheckCodes(resps).v)
    ELSE Ok(parse_result(resps))

\* xunfei.rs:338-361: what transcribe returns once the receive task has
\* handed over its responses
PostProcess(err, resps) ==
    IF err.some /\ resps = <<>> THEN Err(err.v)
    ELSE IF CheckCodes(resps).some THEN Err(CheckCodes(resps).v)
    ELSE Ok(parse_result(resps))

\* mutant of TimeoutOutcome: the responses gathered so far are salvaged
TimeoutOutcome_Salvage(err, resps) == PostProcess(err, resps)

\* xunfei.rs:333-335
TimeoutOutcome(err, resps) == Err(VoiceError("AsrError", <<"timed out waiting for the result">>))

\* pacing between sends, in ms (xunfei.rs:322)
SEND_INTERVAL_MS == 45

\* the audio of n samples handed to transcribe
Sample(k) == ((k * 9973) % 65536) - 32768
AudioOf(n) == [k \in 1..n |-> Sample(k)]
\* lengths that put the last chunk at both ends of its range: for each chunk
\* count c, c full chunks, and c - 1 full chunks plus one sample
SampleCounts ==
    {0} \cup { c * (FRAME_SIZE \div 2) - d :
                 c \in 1..MaxChunks, d \in {0, FRAME_SIZE \div 2 - 1} }
\* no audio, a single frame, and MaxChunks frames
ProtocolSampleCounts == {0, 1, (MaxChunks - 1) * (FRAME_SIZE \div 2) + 1}

\* no transcribe call in progress
XfIdle ==
    /\ xf_audio = <<>>
    /\ peer = {}
    /\ xf_pc = "idle"
    /\ xf_i = 0
    /\ send_error = None
    /\ wire = <<>>
    /\ xf_trace = <<>>
    /\ rx_pc = "idle"
    /\ rx_count = 0
    /\ rx_last = None
    /\ rx_parse_errors = 0
    /\ responses = <<>>
    /\ xf_ret = None
    /\ xf_clock = 0

\* transcribe(audio) has just been called, with audio of one of these lengths
XfCalled(counts) ==
    /\ xf_audio \in { AudioOf(n) : n \in counts }
    /\ xf_pc = "connect"
    /\ xf_i = 0
    /\ send_error = None
    /\ wire = <<>>
    /\ xf_trace = <<>>
    /\ rx_pc = "idle"
    /\ rx_count = 0
    /\ rx_last = None
    /\ rx_parse_errors = 0
    /\ responses = <<>>
    /\ xf_ret = None
    /\ xf_clock = 0

\* ... against a peer that may deliver anything
XfInit == XfCalled(ProtocolSampleCounts) /\ peer = PeerMsgs

\* ... against a peer that sends one final result or just closes
XfFramingInit ==
    /\ XfCalled(SampleCounts)
    /\ peer = { m \in PeerMsgs :
                  \/ m.type = "Close"
                  \/ m.type = "Text" /\ Parses(m.json) /\ IsLast(FromJson(m.json)) }

XfChunks == Chunks(ToLeBytes(xf_audio), FRAME_SIZE)

\* xunfei.rs:201-232: the signed URL is built (HMAC accepts a key of any
\* length, so this does not fail), the connection is opened, the audio is
\* chunked and the receive task spawned
XfConnect ==
    /\ xf_pc = "connect"
    /\ \E connected \in BOOLEAN :
          IF connected
          THEN /\ rx_pc' = "running"
               /\ xf_pc' = IF Len(XfChunks) = 0 THEN "join" ELSE "send"
               /\ UNCHANGED xf_ret
          ELSE /\ xf_ret' = Some(Err(VoiceError("NetworkError", <<"WebSocket connect failed">>)))
               /\ xf_pc' = "done"
               /\ UNCHANGED rx_pc
    /\ UNCHANGED <<xf_audio, peer, xf_i, send_error, wire, xf_trace, rx_count, rx_last,
                   rx_parse_errors, responses, xf_clock>>
    /\ OnlyXunfei

\* mutant of SleepsAfter: the loop sleeps after every send
SleepsAfter_Always(i, total_chunks) == i < total_chunks

\* xunfei.rs:321: whether the loop sleeps after sending chunk i
SleepsAfter(i, total_chunks) == i < total_chunks - 1

\* mutant of AfterSendFailure: the loop goes on with the next chunk
AfterSendFailure_Continue(i, total_chunks) ==
    IF i + 1 < total_chunks THEN "sleep" ELSE "join"

\* xunfei.rs:311-315: a failed send breaks out of the loop, to the join
AfterSendFailure(i, total_chunks) == "join"

\* mutant of NextIteration: the loop is left once the receive task has ended
NextIteration_WhileReceiving(i, total_chunks, rx) ==
    IF i < total_chunks /\ rx = "running" THEN "send" ELSE "join"

\* xunfei.rs:282: where the loop goes when it comes round with index i: the
\* iterator over the chunks alone decides, the state rx of the receive task
\* is not consulted
NextIteration(i, total_chunks, rx) ==
    IF i < total_chunks THEN "send" ELSE "join"

\* xunfei.rs:282-324, one iteration up to the sleep: build the frame for
\* chunk i, serialise it and write it; a failed write records the error and
\* leaves the loop
XfSend ==
    /\ xf_pc = "send"
    /\ LET total_chunks == Len(XfChunks)
           request == BuildRequest(xf_i, total_chunks, XfChunks[xf_i + 1])
       IN  \E sent \in BOOLEAN :
              IF sent
              THEN /\ wire' = Append(wire, ToJson(request))
                   /\ xf_trace' = Append(xf_trace, <<"send", xf_i>>)
                   /\ IF SleepsAfter(xf_i, total_chunks)
                      THEN xf_pc' = "sleep" /\ UNCHANGED xf_i
                      ELSE /\ xf_i' = xf_i + 1
                           /\ xf_pc' = NextIteration(xf_i + 1, total_chunks, rx_pc)
                   /\ UNCHANGED send_error
              ELSE /\ send_error' = Some(VoiceError("NetworkError", <<"send failed">>))
                   /\ xf_pc' = AfterSendFailure(xf_i, total_chunks)
                   /\ UNCHANGED <<wire, xf_trace, xf_i>>
    /\ UNCHANGED <<xf_audio, peer, rx_pc, rx_count, rx_last, rx_parse_errors, responses,
                   xf_ret, xf_clock>>
    /\ OnlyXunfei

\* xunfei.rs:322: the pacing sleep, then the next iteration
XfSleep ==
    /\ xf_pc = "sleep"
    /\ xf_trace' = Append(xf_trace, <<"sleep", SEND_INTERVAL_MS>>)
    /\ xf_clock' = xf_clock + SEND_INTERVAL_MS
    /\ xf_i' = xf_i + 1
    /\ xf_pc' = NextIteration(xf_i + 1, Len(XfChunks), rx_pc)
    /\ UNCHANGED <<xf_audio, peer, send_error, wire, rx_pc, rx_count, rx_last,
                   rx_parse_errors, responses, xf_ret>>
    /\ OnlyXunfei

\* the window of the wait for the receive task, in ms (xunfei.rs:328)
TIMEOUT_MS == 30000

\* mutant of TimeoutClock: the window is counted twice
TimeoutClock_Double(join_started) == join_started + 2 * TIMEOUT_MS

\* xunfei.rs:328: tokio::time::timeout(30 s, receive_task) is created when the
\* send loop is over; the instant at which it expires
TimeoutClock(join_started) == join_started + TIMEOUT_MS

\* xunfei.rs:327-361: the receive task has ended (before the wait began, or
\* within its window), its responses are judged
XfJoin ==
    /\ xf_pc = "join"
    /\ rx_pc = "finished"
    /\ xf_clock' \in {xf_clock, TimeoutClock(xf_clock) - 1}
    /\ xf_ret' = Some(PostProcess(send_error, responses))
    /\ xf_pc' = "done"
    /\ UNCHANGED <<xf_audio, peer, xf_i, send_error, wire, xf_trace, rx_pc, rx_count,
                   rx_last, rx_parse_errors, responses>>
    /\ OnlyXunfei

\* xunfei.rs:328, 333-335: the 30 s window ends with the receive task still
\* running (the task itself is left running, detached)
XfTimeout ==
    /\ xf_pc = "join"
    /\ rx_pc = "running"
    /\ xf_clock' = TimeoutClock(xf_clock)
    /\ xf_ret' = Some(TimeoutOutcome(send_error, responses))
    /\ xf_pc' = "done"
    /\ UNCHANGED <<xf_audio, peer, xf_i, send_error, wire, xf_trace, rx_pc, rx_count,
                   rx_last, rx_parse_errors, responses>>
    /\ OnlyXunfei

\* mutant of OnMessage: a text that cannot be parsed ends the loop
OnMessage_ParseErrorBreaks(resps, msg) ==
    CASE msg.type = "Text" ->
            IF Parses(msg.json)
            THEN <<Append(resps, FromJson(msg.json)), IsLast(FromJson(msg.json))>>
            ELSE <<resps, TRUE>>
      [] msg.type \in {"Close", "Err", "End"} -> <<resps, TRUE>>
      [] OTHER -> <<resps, FALSE>>

\* mutant of OnMessage: a final response does not end the loop
OnMessage_NoBreak(resps, msg) ==
    CASE msg.type = "Text" ->
            IF Parses(msg.json)
            THEN <<Append(resps, FromJson(msg.json)), FALSE>>
            ELSE <<resps, FALSE>>
      [] msg.type \in {"Close", "Err", "End"} -> <<resps, TRUE>>
      [] OTHER -> <<resps, FALSE>>

\* xunfei.rs:235-274, the effect of one message on the receive task:
\* <<responses, whether the loop ends>>
OnMessage(resps, msg) ==
    CASE msg.type = "Text" ->
            IF Parses(msg.json)
            THEN <<Append(resps, FromJson(msg.json)), IsLast(FromJson(msg.json))>>
            ELSE <<resps, FALSE>>
      [] msg.type \in {"Close", "Err", "End"} -> <<resps, TRUE>>
      [] OTHER -> <<resps, FALSE>>

\* one iteration of the receive loop
XfReceive ==
    /\ rx_pc = "running"
    /\ rx_count < MaxMsgs
    /\ rx_count' = rx_count + 1
    /\ \E msg \in peer :
          /\ rx_last' = Some(msg)
          /\ rx_parse_errors' =
                IF msg.type = "Text" /\ ~Parses(msg.json)
                THEN rx_parse_errors + 1 ELSE rx_parse_errors
          /\ responses' = OnMessage(responses, msg)[1]
          /\ rx_pc' = IF OnMessage(responses, msg)[2] THEN "finished" ELSE "running"
    /\ UNCHANGED <<xf_audio, peer, xf_pc, xf_i, send_error, wire, xf_trace, xf_ret,
                   xf_clock>>
    /\ OnlyXunfei

NextXunfei ==
    \/ XfConnect
    \/ XfSend
    \/ XfSleep
    \/ XfJoin
    \/ XfTimeout
    \/ XfReceive

\* ================================================================== OutputHandler
\* texts over a two-letter alphabet, up to MaxTextLen characters
RECURSIVE TextsOfLen(_)
TextsOfLen(n) ==
    IF n = 0 THEN { <<>> }
    ELSE { Append(t, c) : t \in TextsOfLen(n - 1), c \in {"h", "i"} }
Texts == UNION { TextsOfLen(n) : n \in 0..MaxTextLen }
OutputModes == {"Type", "Clipboard", "Both"}

\* OutputHandler::new (output.rs:19-24), nothing output yet
OutInit ==
    /\ out_pc = "idle"
    /\ out_text = <<>>
    /\ out_mode = "Type"
    /\ out_typed = 0
    /\ out_log = <<>>
    /\ clipboard = None
    /\ focus = <<>>
    /\ out_ret = None
    /\ out_calls = 0

\* mutant of FirstStep: Both starts with the keystrokes
FirstStep_TypeFirst(mode) == IF mode = "Clipboard" THEN "copy" ELSE "type"

\* output.rs:28-34: the first operation of each mode
FirstStep(mode) == IF mode = "Type" THEN "type" ELSE "copy"

\* mutant of AfterCopy: the keystrokes follow the copy in every mode
AfterCopy_AlwaysType(mode) == "type"

\* output.rs:30-33: what follows a successful copy_to_clipboard
AfterCopy(mode) == IF mode = "Both" THEN "type" ELSE "idle"

\* output.rs:27: output(text, mode) is called
OutCall ==
    /\ out_pc = "idle"
    /\ out_calls < MaxCalls
    /\ out_calls' = out_calls + 1
    /\ \E text \in Texts, mode \in OutputModes :
          /\ out_text' = text
          /\ out_mode' = mode
          /\ out_pc' = FirstStep(mode)
    /\ out_typed' = 0
    /\ out_log' = <<>>
    /\ out_ret' = None
    /\ UNCHANGED <<clipboard, focus>>
    /\ OnlyOutput

\* output.rs:49-59: copy_to_clipboard: opening the clipboard or set_text may
\* fail with ClipboardError (and `?` then ends output); otherwise the
\* clipboard holds the text
OutCopy ==
    /\ out_pc = "copy"
    /\ \E outcome \in {"ok", "new failed", "set_text failed"} :
          IF outcome = "ok"
          THEN /\ clipboard' = Some(out_text)
               /\ out_log' = Append(out_log, <<"set_text", out_text>>)
               /\ out_pc' = AfterCopy(out_mode)
               /\ out_ret' = IF AfterCopy(out_mode) = "idle" THEN Some(Ok(<<>>)) ELSE None
          ELSE /\ out_pc' = "idle"
               /\ out_ret' = Some(Err(VoiceError("ClipboardError", <<outcome>>)))
               /\ UNCHANGED <<clipboard, out_log>>
    /\ UNCHANGED <<out_text, out_mode, out_typed, focus, out_calls>>
    /\ OnlyOutput

\* output.rs:39-46: type_text: enigo.text(text) sends the characters one
\* after the other to the focused application and may fail at any of them
\* with KeyboardError; it returns Ok once all are sent
OutType ==
    /\ out_pc = "type"
    /\ \/ /\ out_typed < Len(out_text)
          /\ focus' = Append(focus, out_text[out_typed + 1])
          /\ out_log' = Append(out_log, <<"key", out_text[out_typed + 1]>>)
          /\ out_typed' = out_typed + 1
          /\ UNCHANGED <<out_pc, out_ret>>
       \/ /\ out_typed = Len(out_text)
          /\ out_pc' = "idle"
          /\ out_ret' = Some(Ok(<<>>))
          /\ UNCHANGED <<focus, out_log, out_typed>>
       \/ /\ out_pc' = "idle"
          /\ out_ret' = Some(Err(VoiceError("KeyboardError", <<"text failed">>)))
          /\ UNCHANGED <<focus, out_log, out_typed>>
    /\ UNCHANGED <<out_text, out_mode, clipboard, out_calls>>
    /\ OnlyOutput

NextOutput ==
    \/ OutCall
    \/ OutCopy
    \/ OutType

\* ================================================================== BaiduClient
\* access tokens the token endpoint may issue
BdTokens == {"token-1", "token-2"}
\* bodies the token endpoint may answer with; TokenResponse (baidu.rs:14-19)
\* needs both access_token and expires_in
TokenBodies ==
    { [access_token |-> t, expires_in |-> 2592000] : t \in BdTokens }
      \cup { [access_token |-> "token-1"], [error |-> "invalid_client"] }
\* what the POST to the token endpoint can come to: a transport failure, or an
\* HTTP reply with a status and a body
TokenReplies ==
    { [sent |-> FALSE, success |-> FALSE, body |-> [error |-> "unreachable"]] }
      \cup { [sent |-> TRUE, success |-> ok, body |-> b] : ok \in BOOLEAN, b \in TokenBodies }
TokenParses(body) == {"access_token", "expires_in"} \subseteq DOMAIN body

\* mutant of get_token: the HTTP status of the reply is not looked at
get_token_IgnoresStatus(cache, reply) ==
    IF cache.some
    THEN [ret |-> Ok(cache.v), cache |-> cache, exchanged |-> FALSE]
    ELSE IF ~reply.sent
    THEN [ret |-> Err(VoiceError("NetworkError", <<"token request failed">>)),
          cache |-> cache, exchanged |-> TRUE]
    ELSE IF ~TokenParses(reply.body)
    THEN [ret |-> Err(VoiceError("AsrAuthError", <<"token body">>)),
          cache |-> cache, exchanged |-> TRUE]
    ELSE [ret |-> Ok(reply.body.access_token),
          cache |-> Some(reply.body.access_token), exchanged |-> TRUE]

\* BaiduClient::get_token (baidu.rs:60-88) on an instance whose cache is
\* `cache`: the result, the cache afterwards, and whether the endpoint was asked
get_token(cache, reply) ==
    IF cache.some
    THEN [ret |-> Ok(cache.v), cache |-> cache, exchanged |-> FALSE]
    ELSE IF ~reply.sent
    THEN [ret |-> Err(VoiceError("NetworkError", <<"token request failed">>)),
          cache |-> cache, exchanged |-> TRUE]
    ELSE IF ~reply.success
    THEN [ret |-> Err(VoiceError("AsrAuthError", <<"fetching the Baidu token failed">>)),
          cache |-> cache, exchanged |-> TRUE]
    ELSE IF ~TokenParses(reply.body)
    THEN [ret |-> Err(VoiceError("AsrAuthError", <<"token body">>)),
          cache |-> cache, exchanged |-> TRUE]
    ELSE [ret |-> Ok(reply.body.access_token),
          cache |-> Some(reply.body.access_token), exchanged |-> TRUE]

\* baidu.rs:95: the instance a call works on is BaiduClient::new(..)
\* (baidu.rs:51-57), whose cache is empty whatever the caller's holds
TranscribeClient(self_cached) == None

\* mutant of CallerCacheAfter: the token obtained is kept in the caller's instance
CallerCacheAfter_Stored(self_cached, client_cached) == client_cached

\* baidu.rs:93-96: transcribe takes &self and get_token runs on the local
\* `client`, so the caller's cache is what it was
CallerCacheAfter(self_cached, client_cached) == self_cached

\* the recognised strings of the examples, as character sequences
StrNi == <<"n", "i">>
StrHao == <<"h", "a", "o">>
\* bodies the transcription endpoint may answer with; AsrResponse
\* (baidu.rs:22-28) needs err_no and err_msg, result defaults to the empty list
AsrBodies ==
    { [err_no |-> 0, err_msg |-> "success.", result |-> <<StrNi, StrHao>>],
      [err_no |-> 0, err_msg |-> "success.", result |-> <<StrHao, <<>>, StrNi, StrNi>>],
      [err_no |-> 0, err_msg |-> "success.", result |-> <<>>],
      [err_no |-> 0, err_msg |-> "success."],
      [err_no |-> 3301, err_msg |-> "speech quality error."],
      [err_no |-> 3302, err_msg |-> "authentication failed.", result |-> <<StrNi>>],
      [err_no |-> -1, err_msg |-> "", result |-> <<>>],
      [err_msg |-> "no err_no"],
      [err_no |-> 0] }
\* what the POST to the transcription endpoint can come to
AsrReplies ==
    { [sent |-> FALSE, body |-> [err_msg |-> "unreachable"]] }
      \cup { [sent |-> TRUE, body |-> b] : b \in AsrBodies }
AsrParses(body) == {"err_no", "err_msg"} \subseteq DOMAIN body
AsrFromJson(body) ==
    [err_no |-> body.err_no, err_msg |-> body.err_msg,
     result |-> IF "result" \in DOMAIN body THEN body.result ELSE <<>>]

\* mutant of Join: only the first of the strings is taken
Join_First(strs) == IF strs = <<>> THEN <<>> ELSE Head(strs)

\* result.join("") (baidu.rs:131)
RECURSIVE Join(_)
Join(strs) == IF strs = <<>> THEN <<>> ELSE Head(strs) \o Join(Tail(strs))

\* baidu.rs:137: segments: vec![]
BaiduSegments(text) == <<>>

\* mutant of JudgeResponse: result strings win over the error code
JudgeResponse_ResultFirst(result) ==
    IF result.err_no # 0 /\ result.result = <<>>
    THEN Err(VoiceError("AsrError", <<"baidu ASR error", result.err_no, result.err_msg>>))
    ELSE Ok([text |-> Join(result.result), language |-> Some("zh"),
             confidence |-> None, segments |-> BaiduSegments(Join(result.result))])

\* baidu.rs:124-138: the parsed response decides
JudgeResponse(result) ==
    IF result.err_no # 0
    THEN Err(VoiceError("AsrError", <<"baidu ASR error", result.err_no, result.err_msg>>))
    ELSE Ok([text |-> Join(result.result), language |-> Some("zh"),
             confidence |-> None, segments |-> BaiduSegments(Join(result.result))])

\* the audio handed to the batch backend, with the container bytes
\* audio.to_wav_bytes() yields for it (cut to their first bytes)
BdAudios ==
    { [sample_rate |-> DEFAULT_SAMPLE_RATE, channels |-> DEFAULT_CHANNELS, wav_bytes |-> w] :
        w \in { <<82, 73, 70, 70>>, <<82, 73, 70, 70, 36>> } }
NoAudio == [sample_rate |-> 0, channels |-> 0, wav_bytes |-> <<>>]

\* baidu.rs:98-109
AsrRequest(audio, token) ==
    [format |-> "wav", rate |-> audio.sample_rate, channel |-> audio.channels,
     cuid |-> "proxycast", token |-> token, speech |-> Base64Encode(audio.wav_bytes),
     len |-> Len(audio.wav_bytes)]

\* BaiduClient::new (baidu.rs:51-57), no call made yet
BdInit ==
    /\ bd_cached = None
    /\ bd_audio = NoAudio
    /\ bd_pc = "idle"
    /\ bd_client = None
    /\ bd_token = ""
    /\ bd_exchanges = <<>>
    /\ bd_posts = <<>>
    /\ bd_resp = None
    /\ bd_ret = None
    /\ bd_calls = 0

\* baidu.rs:93-95: transcribe(audio) is called and makes its local client
BdCall ==
    /\ bd_pc = "idle"
    /\ bd_calls < MaxBdCalls
    /\ bd_calls' = bd_calls + 1
    /\ \E audio \in BdAudios : bd_audio' = audio
    /\ bd_client' = TranscribeClient(bd_cached)
    /\ bd_token' = ""
    /\ bd_resp' = None
    /\ bd_ret' = None
    /\ bd_pc' = "get_token"
    /\ UNCHANGED <<bd_cached, bd_exchanges, bd_posts>>
    /\ OnlyBaidu

\* baidu.rs:96: client.get_token().await? ; a failure ends the call, and
\* either way the local client is the only instance written
BdGetToken ==
    /\ bd_pc = "get_token"
    /\ \E reply \in TokenReplies :
          LET got == get_token(bd_client, reply)
          IN  /\ bd_client' = got.cache
              /\ bd_cached' = CallerCacheAfter(bd_cached, got.cache)
              /\ bd_exchanges' =
                    IF got.exchanged
                    THEN Append(bd_exchanges,
                                [call |-> bd_calls, reply |-> reply,
                                 token |-> IF got.ret.ok THEN Some(got.ret.v) ELSE None])
                    ELSE bd_exchanges
              /\ IF got.ret.ok
                 THEN bd_token' = got.ret.v /\ bd_pc' = "post" /\ UNCHANGED bd_ret
                 ELSE bd_ret' = Some(got.ret) /\ bd_pc' = "idle" /\ UNCHANGED bd_token
    /\ UNCHANGED <<bd_audio, bd_posts, bd_resp, bd_calls>>
    /\ OnlyBaidu

\* baidu.rs:98-139: the request is built and posted; a transport failure is
\* a NetworkError, an unparseable body an AsrError, and a parsed response is
\* judged by its err_no
BdPost ==
    /\ bd_pc = "post"
    /\ bd_posts' = Append(bd_posts, [call |-> bd_calls, request |-> AsrRequest(bd_audio, bd_token)])
    /\ \E reply \in AsrReplies :
          IF ~reply.sent
          THEN /\ bd_ret' = Some(Err(VoiceError("NetworkError", <<"request failed">>)))
               /\ bd_resp' = None
          ELSE IF ~AsrParses(reply.body)
          THEN /\ bd_ret' = Some(Err(VoiceError("AsrError", <<"response body">>)))
               /\ bd_resp' = None
          ELSE /\ bd_ret' = Some(JudgeResponse(AsrFromJson(reply.body)))
               /\ bd_resp' = Some(AsrFromJson(reply.body))
    /\ bd_pc' = "idle"
    /\ UNCHANGED <<bd_cached, bd_audio, bd_client, bd_token, bd_exchanges, bd_calls>>
    /\ OnlyBaidu

NextBaidu ==
    \/ BdCall
    \/ BdGetToken
    \/ BdPost

\* ================================================================== WhisperTranscriber
\* the language a transcriber may be constructed with (transcriber.rs:28);
\* the comparison with "auto" is exact, so "AUTO" is a fixed code like any other
Languages == {"auto", "zh", "en", "AUTO"}

\* transcriber.rs:45-49: s as f32 / i16::MAX as f32, kept as a fraction
Normalize(smps) == [k \in 1..Len(smps) |-> [num |-> smps[k], den |-> I16_MAX]]
WhAudios == { <<>>, <<0, I16_MAX, I16_MIN>> }

\* FullParams::new(SamplingStrategy::Greedy { best_of: 1 }) (transcriber.rs:52):
\* the engine's defaults; the language is whatever the engine defaults to
\* until set_language is called
FullParamsNew ==
    [strategy |-> "Greedy", best_of |-> 1, language |-> "<engine default>",
     detect_language |-> "<engine default>",
     print_special |-> "<engine default>", print_progress |-> "<engine default>",
     print_realtime |-> "<engine default>", print_timestamps |-> "<engine default>",
     translate |-> "<engine default>", no_context |-> "<engine default>",
     single_segment |-> "<engine default>"]

\* transcriber.rs:55: whether set_language(Some(language)) is called
SetsLanguage(language) == language # "auto"

\* transcriber.rs:52-66: the parameters of the inference pass
BuildParams(language) ==
    [ (IF SetsLanguage(language)
       THEN [FullParamsNew EXCEPT !.language = language]
       ELSE FullParamsNew)
      EXCEPT !.print_special = FALSE, !.print_progress = FALSE,
             !.print_realtime = FALSE, !.print_timestamps = FALSE,
             !.translate = FALSE, !.no_context = TRUE, !.single_segment = FALSE ]

\* mutant of QueriesState: the detected language is read in every configuration
QueriesState_Always(language) == TRUE

\* transcriber.rs:98: whether the state is asked for the language it detected
QueriesState(language) == language = "auto"

\* whisper_rs::get_lang_str (transcriber.rs:102): the code of a language id,
\* or nothing for an id the engine does not know
LangStr(id) ==
    CASE id = 0 -> Some("en")
      [] id = 1 -> Some("zh")
      [] OTHER  -> None

\* one segment as the state's getters report it: the text and the two
\* timestamps (in 10 ms units), each of which may fail (an Err here carries
\* an empty value in place of the engine's error)
EngineSegments ==
    { [text |-> Ok(<<" ", "h", "i">>), t0 |-> Ok(0), t1 |-> Ok(150)],
      [text |-> Ok(<<" ", "y", "o", " ">>), t0 |-> Err(-1), t1 |-> Ok(320)],
      [text |-> Err(<<>>), t0 |-> Ok(150), t1 |-> Err(-1)] }
RECURSIVE SegmentLists(_)
SegmentLists(n) ==
    IF n = 0 THEN { <<>> }
    ELSE { Append(l, g) : l \in SegmentLists(n - 1), g \in EngineSegments }
\* what the state holds once full() has run: its segment count (a getter that
\* may fail), its segments, and the id of the language it settled on
EngineStates ==
    { [n |-> Ok(Len(l)), segs |-> l, lang |-> lg] :
        l \in UNION { SegmentLists(k) : k \in 0..MaxSegments },
        lg \in {Ok(0), Ok(1), Ok(99), Err(-1)} }
      \cup { [n |-> Err(-1), segs |-> << CHOOSE g \in EngineSegments : g.text.ok >>,
              lang |-> Ok(1)] }
NoEngine == [n |-> Ok(0), segs |-> <<>>, lang |-> Err(-1)]

\* str::trim (transcriber.rs:108): leading and trailing white space removed
RECURSIVE TrimStart(_)
TrimStart(t) == IF t # <<>> /\ Head(t) = " " THEN TrimStart(Tail(t)) ELSE t
RECURSIVE TrimEnd(_)
TrimEnd(t) ==
    IF t # <<>> /\ t[Len(t)] = " " THEN TrimEnd(SubSeq(t, 1, Len(t) - 1)) ELSE t
Trim(t) == TrimEnd(TrimStart(t))

\* transcriber.rs:79-95: the segments whose text could be read, in order,
\* with start and end in seconds (a timestamp that cannot be read counts as 0)
RECURSIVE CollectSegments(_, _, _)
CollectSegments(engine, i, num_segments) ==
    IF i >= num_segments THEN <<>>
    ELSE LET g == engine.segs[i + 1]
             rest == CollectSegments(engine, i + 1, num_segments)
         IN  IF g.text.ok
             THEN << [start |-> [num |-> IF g.t0.ok THEN g.t0.v ELSE 0, den |-> 100],
                      end |-> [num |-> IF g.t1.ok THEN g.t1.v ELSE 0, den |-> 100],
                      text |-> g.text.v] >> \o rest
             ELSE rest
RECURSIVE SegmentsText(_)
SegmentsText(segs) == IF segs = <<>> THEN <<>> ELSE Head(segs).text \o SegmentsText(Tail(segs))

\* transcriber.rs:97-105
DetectedLanguage(language, engine) ==
    IF QueriesState(language)
    THEN IF engine.lang.ok THEN LangStr(engine.lang.v) ELSE None
    ELSE Some(language)

\* transcriber.rs:78-112: the result read off the engine's state
WhisperResult(language, engine) ==
    LET num_segments == IF engine.n.ok THEN engine.n.v ELSE 0
        segments == CollectSegments(engine, 0, num_segments)
    IN  [text |-> Trim(SegmentsText(segments)),
         language |-> DetectedLanguage(language, engine),
         confidence |-> None,
         segments |-> segments]

\* no transcribe call made yet
WhIdle ==
    /\ wh_pc = "idle"
    /\ wh_samples = <<>>
    /\ wh_params = FullParamsNew
    /\ wh_engine = NoEngine
    /\ wh_queried = FALSE
    /\ wh_ret = None
    /\ wh_calls = 0
\* the transcriber of the other components' specifications
WhInit == wh_language = "auto" /\ WhIdle
\* WhisperTranscriber::new (transcriber.rs:28-40) with any language
WhConstructed == wh_language \in Languages /\ WhIdle

\* transcriber.rs:43-66: transcribe(audio) is called; samples and parameters
WhCall ==
    /\ wh_pc = "idle"
    /\ wh_calls < MaxWhCalls
    /\ wh_calls' = wh_calls + 1
    /\ \E audio \in WhAudios : wh_samples' = Normalize(audio)
    /\ wh_params' = BuildParams(wh_language)
    /\ wh_engine' = NoEngine
    /\ wh_queried' = FALSE
    /\ wh_ret' = None
    /\ wh_pc' = "state"
    /\ UNCHANGED wh_language
    /\ OnlyWhisper

\* transcriber.rs:69-72: create_state may fail
WhCreateState ==
    /\ wh_pc = "state"
    /\ \E created \in BOOLEAN :
          IF created
          THEN wh_pc' = "full" /\ UNCHANGED wh_ret
          ELSE /\ wh_pc' = "idle"
               /\ wh_ret' = Some(Err(VoiceError("TranscriberError", <<"create_state">>)))
    /\ UNCHANGED <<wh_language, wh_samples, wh_params, wh_engine, wh_queried, wh_calls>>
    /\ OnlyWhisper

\* transcriber.rs:74-76: the inference pass; it may fail, and otherwise leaves
\* its outcome in the state
WhFull ==
    /\ wh_pc = "full"
    /\ \/ /\ wh_pc' = "idle"
          /\ wh_ret' = Some(Err(VoiceError("TranscriberError", <<"full">>)))
          /\ UNCHANGED wh_engine
       \/ /\ \E e \in EngineStates : wh_engine' = e
          /\ wh_pc' = "collect"
          /\ UNCHANGED wh_ret
    /\ UNCHANGED <<wh_language, wh_samples, wh_params, wh_queried, wh_calls>>
    /\ OnlyWhisper

\* transcriber.rs:78-113: the result is read off the state
WhCollect ==
    /\ wh_pc = "collect"
    /\ wh_queried' = QueriesState(wh_language)
    /\ wh_ret' = Some(Ok(WhisperResult(wh_language, wh_engine)))
    /\ wh_pc' = "idle"
    /\ UNCHANGED <<wh_language, wh_samples, wh_params, wh_engine, wh_calls>>
    /\ OnlyWhisper

NextWhisper ==
    \/ WhCall
    \/ WhCreateState
    \/ WhFull
    \/ WhCollect

\* ================================================================== WorkspaceManager
\* The table is a set of rows; a row keeps the columns the operations test or
\* write apart from the two timestamps. Every statement is taken to execute:
\* a statement the database fails returns through map_err before any later
\* statement runs, and a poisoned mutex before any statement.

\* the clones of the manager (manager.rs:13), which share one DbConnection
Callers == {1, 2}
WsNames == {"alpha", "beta"}
\* root paths: two that are valid UTF-8 and one that is not
WsPaths == {"/a", "/b"}
NonUtf8Path == "/\\xff"
\* WorkspaceSettings (types.rs:41-51): the default, and the value an update
\* may set
DefaultSettings == "default"
WsSettings == {"auto_compact"}

Row(id, name, root_path, is_default, settings) ==
    [id |-> id, name |-> name, root_path |-> root_path, is_default |-> is_default,
     settings |-> settings]
NoRow == Row(0, "", "", FALSE, "")

WsResult(op, ok, err, ws, affected) ==
    [op |-> op, ok |-> ok, err |-> err, ws |-> ws, affected |-> affected]
NoWsResult == WsResult("", TRUE, "", NoRow, FALSE)
\* the result a call of clone c returned
Returned(c, result) == [caller |-> c, result |-> result]

\* the arguments and locals of a running call: the id, the new row of a
\* create, the update
WsArg(id, row, name, settings) == [id |-> id, row |-> row, name |-> name, settings |-> settings]
NoWsArg == WsArg(0, NoRow, None, None)

\* WorkspaceManager::new (manager.rs:20-22) on an empty table
WsInit ==
    /\ ws_rows = {}
    /\ ws_lock = 0
    /\ ws_pc = [c \in Callers |-> "idle"]
    /\ ws_arg = [c \in Callers |-> NoWsArg]
    /\ ws_ret = Returned(0, NoWsResult)
    /\ ws_ids = 0
    /\ ws_ops = 0

\* ---- create (manager.rs:25-96) ----
\* manager.rs:36-49: a fresh id is generated and the workspace built, not
\* default and with default settings; a path that is not UTF-8 ends the call
\* (manager.rs:38)
WsCreateCall(c) ==
    /\ ws_pc[c] = "idle"
    /\ ws_ops < MaxWsOps
    /\ ws_ids < MaxWsCreates
    /\ ws_ops' = ws_ops + 1
    /\ ws_ids' = ws_ids + 1
    /\ \E name \in WsNames, root_path \in WsPaths \cup {NonUtf8Path} :
          IF root_path = NonUtf8Path
          THEN /\ ws_ret' = Returned(c,
                                WsResult("create", FALSE, "invalid path", NoRow, FALSE))
               /\ UNCHANGED <<ws_pc, ws_arg>>
          ELSE /\ ws_arg' = [ws_arg EXCEPT ![c] =
                                WsArg(ws_ids + 1,
                                      Row(ws_ids + 1, name, root_path, FALSE, DefaultSettings),
                                      None, None)]
               /\ ws_pc' = [ws_pc EXCEPT ![c] = "create_lock"]
               /\ UNCHANGED ws_ret
    /\ UNCHANGED <<ws_rows, ws_lock>>
    /\ OnlyWorkspace

\* manager.rs:51-54: self.db.lock() returns once the mutex is free
WsCreateLock(c) ==
    /\ ws_pc[c] = "create_lock"
    /\ ws_lock = 0
    /\ ws_lock' = c
    /\ ws_pc' = [ws_pc EXCEPT ![c] = "create_check"]
    /\ UNCHANGED <<ws_rows, ws_arg, ws_ret, ws_ids, ws_ops>>
    /\ OnlyWorkspace

\* manager.rs:57-63: SELECT EXISTS(SELECT 1 FROM workspaces WHERE root_path = ?)
PathExists(rows, root_path) == \E r \in rows : r.root_path = root_path

\* mutant of GuardAfterCheck: the guard is given up once the path is checked
GuardAfterCheck_Released(c) == 0

\* manager.rs:51-96: the guard `conn` lives until create_with_type returns,
\* so the mutex is still held by the caller after the check
GuardAfterCheck(c) == c

\* manager.rs:57-67: the path is looked up; a stored path ends the call with
\* the path-exists error (and the guard is dropped)
WsCreateCheck(c) ==
    /\ ws_pc[c] = "create_check"
    /\ IF PathExists(ws_rows, ws_arg[c].row.root_path)
       THEN /\ ws_ret' = Returned(c,
                             WsResult("create", FALSE, "path exists", NoRow, FALSE))
            /\ ws_pc' = [ws_pc EXCEPT ![c] = "idle"]
            /\ ws_arg' = [ws_arg EXCEPT ![c] = NoWsArg]
            /\ ws_lock' = 0
       ELSE /\ ws_pc' = [ws_pc EXCEPT ![c] = "create_insert"]
            /\ ws_lock' = GuardAfterCheck(c)
            /\ UNCHANGED <<ws_ret, ws_arg>>
    /\ UNCHANGED <<ws_rows, ws_ids, ws_ops>>
    /\ OnlyWorkspace

\* manager.rs:69-95: the row is inserted and the workspace returned; the
\* guard is dropped on return
WsCreateInsert(c) ==
    /\ ws_pc[c] = "create_insert"
    /\ ws_rows' = ws_rows \cup {ws_arg[c].row}
    /\ ws_ret' = Returned(c, WsResult("create", TRUE, "", ws_arg[c].row, FALSE))
    /\ ws_pc' = [ws_pc EXCEPT ![c] = "idle"]
    /\ ws_lock' = IF ws_lock = c THEN 0 ELSE ws_lock
    /\ ws_arg' = [ws_arg EXCEPT ![c] = NoWsArg]
    /\ UNCHANGED <<ws_ids, ws_ops>>
    /\ OnlyWorkspace

\* the ids a caller can pass: those generated so far, and 0 for an id that
\* never was
KnownIds == 0..ws_ids

\* ---- update (manager.rs:170-208) ----
\* manager.rs:178-203: UPDATE workspaces SET updated_at = ?[, name = ?]
\* [, settings_json = ?] WHERE id = ?
UpdateRows(rows, id, name, settings) ==
    { IF r.id = id
      THEN [r EXCEPT !.name = IF name.some THEN name.v ELSE @,
                     !.settings = IF settings.some THEN settings.v ELSE @]
      ELSE r : r \in rows }

\* manager.rs:171-205: the lock is taken, the statement executed and the
\* guard dropped
WsUpdateExec(c) ==
    /\ ws_pc[c] = "idle"
    /\ ws_lock = 0
    /\ ws_ops < MaxWsOps
    /\ ws_ops' = ws_ops + 1
    /\ \E id \in KnownIds, name \in {None} \cup {Some(n) : n \in WsNames},
          settings \in {None} \cup {Some(x) : x \in WsSettings} :
          /\ ws_arg' = [ws_arg EXCEPT ![c] = WsArg(id, NoRow, name, settings)]
          /\ ws_rows' = UpdateRows(ws_rows, id, name, settings)
    /\ ws_pc' = [ws_pc EXCEPT ![c] = "update_get"]
    /\ UNCHANGED <<ws_lock, ws_ret, ws_ids>>
    /\ OnlyWorkspace

\* manager.rs:99-119: get(id), under the lock: the row with that id, if any
GetRow(rows, id) ==
    IF \E r \in rows : r.id = id
    THEN Some(CHOOSE r \in rows : r.id = id)
    ELSE [some |-> FALSE, v |-> NoRow]

\* manager.rs:207: self.get(id)?.ok_or_else(..): the row is read back under a
\* second lock
WsUpdateGet(c) ==
    /\ ws_pc[c] = "update_get"
    /\ ws_lock = 0
    /\ LET got == GetRow(ws_rows, ws_arg[c].id)
       IN  ws_ret' = Returned(c,
                         IF got.some THEN WsResult("update", TRUE, "", got.v, FALSE)
                         ELSE WsResult("update", FALSE, "workspace does not exist",
                                       NoRow, FALSE))
    /\ ws_pc' = [ws_pc EXCEPT ![c] = "idle"]
    /\ ws_arg' = [ws_arg EXCEPT ![c] = NoWsArg]
    /\ UNCHANGED <<ws_rows, ws_lock, ws_ids, ws_ops>>
    /\ OnlyWorkspace

\* ---- delete (manager.rs:211-226) ----
\* DELETE FROM workspaces WHERE id = ? under the lock; Ok(affected > 0)
WsDelete(c) ==
    /\ ws_pc[c] = "idle"
    /\ ws_lock = 0
    /\ ws_ops < MaxWsOps
    /\ ws_ops' = ws_ops + 1
    /\ \E id \in KnownIds :
          /\ ws_rows' = { r \in ws_rows : r.id # id }
          /\ ws_ret' = Returned(c,
                           WsResult("delete", TRUE, "", NoRow, \E r \in ws_rows : r.id = id))
    /\ UNCHANGED <<ws_lock, ws_pc, ws_arg, ws_ids>>
    /\ OnlyWorkspace

\* ---- set_default (manager.rs:229-253) ----
\* mutant of ClearDefaults: the marks are left as they are
ClearDefaults_Skip(rows) == rows

\* manager.rs:236: UPDATE workspaces SET is_default = 0
ClearDefaults(rows) == { [r EXCEPT !.is_default = FALSE] : r \in rows }

\* manager.rs:230-237: the lock is taken and every default mark cleared
WsSetDefaultClear(c) ==
    /\ ws_pc[c] = "idle"
    /\ ws_lock = 0
    /\ ws_ops < MaxWsOps
    /\ ws_ops' = ws_ops + 1
    /\ ws_lock' = c
    /\ \E id \in KnownIds : ws_arg' = [ws_arg EXCEPT ![c] = WsArg(id, NoRow, None, None)]
    /\ ws_rows' = ClearDefaults(ws_rows)
    /\ ws_pc' = [ws_pc EXCEPT ![c] = "set_default_mark"]
    /\ UNCHANGED <<ws_ret, ws_ids>>
    /\ OnlyWorkspace

\* manager.rs:240-245: UPDATE workspaces SET is_default = 1, updated_at = ?
\* WHERE id = ?
MarkDefault(rows, id) ==
    { IF r.id = id THEN [r EXCEPT !.is_default = TRUE] ELSE r : r \in rows }

\* mutant of SetDefaultResult: no row affected is not an error
SetDefaultResult_AlwaysOk(affected) == WsResult("set_default", TRUE, "", NoRow, FALSE)

\* manager.rs:247-252
SetDefaultResult(affected) ==
    IF affected = 0
    THEN WsResult("set_default", FALSE, "workspace does not exist", NoRow, FALSE)
    ELSE WsResult("set_default", TRUE, "", NoRow, FALSE)

\* manager.rs:240-252: the row is marked, the count of affected rows judged
\* and the guard dropped on return
WsSetDefaultMark(c) ==
    /\ ws_pc[c] = "set_default_mark"
    /\ ws_rows' = MarkDefault(ws_rows, ws_arg[c].id)
    /\ ws_ret' = Returned(c,
                     SetDefaultResult(Cardinality({ r \in ws_rows : r.id = ws_arg[c].id })))
    /\ ws_pc' = [ws_pc EXCEPT ![c] = "idle"]
    /\ ws_lock' = 0
    /\ ws_arg' = [ws_arg EXCEPT ![c] = NoWsArg]
    /\ UNCHANGED <<ws_ids, ws_ops>>
    /\ OnlyWorkspace

NextWorkspace ==
    \/ \E c \in Callers : WsCreateCall(c)
    \/ \E c \in Callers : WsCreateLock(c)
    \/ \E c \in Callers : WsCreateCheck(c)
    \/ \E c \in Callers : WsCreateInsert(c)
    \/ \E c \in Callers : WsUpdateExec(c)
    \/ \E c \in Callers : WsUpdateGet(c)
    \/ \E c \in Callers : WsDelete(c)
    \/ \E c \in Callers : WsSetDefaultClear(c)
    \/ \E c \in Callers : WsSetDefaultMark(c)

\* ================================================================== specifications
RecorderInit == RecInit /\ XfIdle /\ OutInit /\ BdInit /\ WhInit /\ WsInit
SpecRecorder == RecorderInit /\ [][NextRecorder]_vars

PollingInit == RecPollInit /\ XfIdle /\ OutInit /\ BdInit /\ WhInit /\ WsInit
SpecPolling == PollingInit /\ [][NextPolling]_vars

XunfeiInit == RecInit /\ XfInit /\ OutInit /\ BdInit /\ WhInit /\ WsInit
SpecXunfei == XunfeiInit /\ [][NextXunfei]_vars

\* framing of the audio, whatever its length
FramingInit == RecInit /\ XfFramingInit /\ OutInit /\ BdInit /\ WhInit /\ WsInit
SpecFraming == FramingInit /\ [][NextXunfei]_vars

OutputInit == RecInit /\ XfIdle /\ OutInit /\ BdInit /\ WhInit /\ WsInit
SpecOutput == OutputInit /\ [][NextOutput]_vars

BaiduInit == RecInit /\ XfIdle /\ OutInit /\ BdInit /\ WhInit /\ WsInit
SpecBaidu == BaiduInit /\ [][NextBaidu]_vars

\* a transcriber constructed with any of the languages
WhisperInit == RecInit /\ XfIdle /\ OutInit /\ BdInit /\ WhConstructed /\ WsInit
SpecWhisper == WhisperInit /\ [][NextWhisper]_vars

WorkspaceInit == RecInit /\ XfIdle /\ OutInit /\ BdInit /\ WhInit /\ WsInit
SpecWorkspace == WorkspaceInit /\ [][NextWorkspace]_vars

\* ================================================================== claims

\* ---- C1 ----
\* C1: stop() called while recording fails with RecordingTooShort exactly when
\* the buffer it copies out lasts less than 0.5 s (16 kHz mono), and otherwise
\* returns an AudioData holding exactly that buffer at 16 kHz mono.
C1_StopTooShortIffUnderHalfSecond ==
    [][ (rec_pc = "stop_lock" /\ rec_pc' = "idle") =>
          IF 2 * Len(samples) < DEFAULT_SAMPLE_RATE * DEFAULT_CHANNELS
          THEN rec_ret' = RetErr("stop", "RecordingTooShort")
          ELSE /\ rec_ret'.op = "stop"
               /\ rec_ret'.ok
               /\ rec_ret'.audio.samples = samples
               /\ rec_ret'.audio.sample_rate = DEFAULT_SAMPLE_RATE
               /\ rec_ret'.audio.channels = DEFAULT_CHANNELS ]_vars

\* a recording one sample short of half a second was stopped and rejected
C1_Witness ==
    /\ rec_pc = "idle"
    /\ rec_ret = RetErr("stop", "RecordingTooShort")
    /\ Len(samples) = MinValidSamples - 1

\* a recording of exactly half a second was stopped and returned
C1_ValidReached ==
    /\ rec_pc = "idle"
    /\ rec_ret.op = "stop"
    /\ rec_ret.ok
    /\ Len(rec_ret.audio.samples) = MinValidSamples

\* ---- C2 ----
\* decoding of a padded base64 text
Base64Decode(text) ==
    LET c == SubSeq(text, 1, Len(text))
        groups == Len(c) \div 4
        pads == Cardinality({k \in (Len(c) - 1)..Len(c) : k >= 1 /\ c[k] = 64})
        sx(k) == IF c[k] = 64 THEN 0 ELSE c[k]
    IN  [j \in 1..(3 * groups - pads) |->
            LET g == (j - 1) \div 3
            IN  CASE (j - 1) % 3 = 0 -> sx(4 * g + 1) * 4 + sx(4 * g + 2) \div 16
                  [] (j - 1) % 3 = 1 -> (sx(4 * g + 2) % 16) * 16 + sx(4 * g + 3) \div 4
                  [] OTHER           -> (sx(4 * g + 3) % 4) * 64 + sx(4 * g + 4)]
RECURSIVE Payloads(_)
Payloads(frames) ==
    IF frames = <<>> THEN <<>>
    ELSE Base64Decode(Head(frames).data.audio) \o Payloads(Tail(frames))
\* the frames transcribe builds for its audio, as they go on the wire
XfFrames ==
    LET chunks == XfChunks
        total_chunks == Len(chunks)
    IN  [k \in 1..total_chunks |-> ToJson(BuildRequest(k - 1, total_chunks, chunks[k]))]
\* what both readings of C2 share: ceil(N / 1280) frames whose payloads add up
\* to the raw bytes, frame 0 with status 0 and the business parameters, and the
\* socket carrying a prefix of these frames
C2_Common(frames) ==
    LET N == 2 * Len(xf_audio)
    IN  /\ Len(frames) = (N + FRAME_SIZE - 1) \div FRAME_SIZE
        /\ Payloads(frames) = ToLeBytes(xf_audio)
        /\ Len(frames) > 0 =>
              /\ frames[1].data.status = 0
              /\ "business" \in DOMAIN frames[1]
        /\ Len(wire) <= Len(frames)
        /\ wire = SubSeq(frames, 1, Len(wire))

\* C2 as stated: the last frame, and only it, has status 2 for every N
\* (a single frame included); every other frame has status 1 and no
\* business parameters.
C2_Original ==
    LET frames == XfFrames
    IN  /\ C2_Common(frames)
        /\ \A k \in 1..Len(frames) :
              /\ (frames[k].data.status = 2) <=> (k = Len(frames))
              /\ (k # 1 /\ k # Len(frames)) =>
                    /\ frames[k].data.status = 1
                    /\ "business" \notin DOMAIN frames[k]

\* What the code does instead: a frame has status 2 exactly when it is the
\* last of at least two frames; audio of at most 1280 bytes yields one frame of
\* status 0 and no frame of status 2. Frames after the first carry no business
\* parameters, and those before the last have status 1.
FrameStatusesAsBuilt ==
    LET frames == XfFrames
    IN  /\ C2_Common(frames)
        /\ \A k \in 1..Len(frames) :
              /\ (frames[k].data.status = 2) <=> (k = Len(frames) /\ k > 1)
              /\ (frames[k].data.status = 0) <=> (k = 1)
              /\ k > 1 => "business" \notin DOMAIN frames[k]
              /\ (k # 1 /\ k # Len(frames)) => frames[k].data.status = 1

\* three frames were sent, the last one holding the two bytes left over
C2_Witness ==
    /\ Len(wire) = 3
    /\ 2 * Len(xf_audio) = 2 * FRAME_SIZE + 2
    /\ wire[3].data.status = 2
    /\ Len(Base64Decode(wire[3].data.audio)) = 2

\* a single frame was sent, with status 0
C2_SingleFrameReached ==
    /\ xf_pc = "done"
    /\ Len(xf_audio) = 1
    /\ Len(wire) = 1
    /\ wire[1].data.status = 0

\* ---- helpers of the claims about the streaming protocol ----
Front(s) == SubSeq(s, 1, Len(s) - 1)
Last(s) == s[Len(s)]
\* the concatenation of a sequence of sequences
RECURSIVE Flat(_)
Flat(ss) == IF ss = <<>> THEN <<>> ELSE Flat(Front(ss)) \o Last(ss)
\* every candidate word of the responses: response order, then ws, then cw
WordsOf(resp) ==
    IF resp.data.some /\ resp.data.v.result.some
    THEN Flat([i \in 1..Len(resp.data.v.result.v.ws) |->
                 [j \in 1..Len(resp.data.v.result.v.ws[i].cw) |->
                     resp.data.v.result.v.ws[i].cw[j].w]])
    ELSE <<>>
AllWords(resps) == Flat(Flat([k \in 1..Len(resps) |-> WordsOf(resps[k])]))
HasNonZero(resps) == \E k \in 1..Len(resps) : resps[k].code # 0
FirstNonZero(resps) ==
    resps[CHOOSE k \in 1..Len(resps) :
            resps[k].code # 0 /\ \A j \in 1..(k - 1) : resps[j].code = 0]
BackendError(resp) ==
    [kind |-> "AsrError",
     detail |-> <<"xunfei ASR error", resp.code,
                  IF resp.message.some THEN resp.message.v ELSE "">>]
TimeoutError == [kind |-> "AsrError", detail |-> <<"timed out waiting for the result">>]
HasStatus2(resp) == resp.data.some /\ resp.data.v.status = 2
\* transcribe returns in this step
Returns == xf_pc # "done" /\ xf_pc' = "done"

\* ---- C3 ----
\* C3: a collected response with data.status = 2 is always the last element of
\* the response list and the receive loop has ended with it; once the loop has
\* ended, no further message is read or collected.
C3_LastResponseEndsLoop ==
    [][ /\ \A k \in 1..Len(responses') :
              HasStatus2(responses'[k]) => (k = Len(responses') /\ rx_pc' = "finished")
        /\ rx_pc = "finished" =>
              (responses' = responses /\ rx_count' = rx_count /\ rx_pc' = "finished")
      ]_vars

\* the loop ended on a final response although the peer had more to deliver
C3_Witness ==
    /\ rx_pc = "finished"
    /\ rx_count < MaxMsgs
    /\ Len(responses) = 1
    /\ HasStatus2(responses[1])

\* ---- C4 ----
\* C4: when the timeout ends the wait while the receive loop is still running,
\* transcribe returns the timeout error, whatever responses were collected.
C4_TimeoutIsError ==
    [][ (Returns /\ xf_pc = "join" /\ rx_pc = "running") =>
           xf_ret' = Some(Err(TimeoutError)) ]_vars

\* the call timed out although only successful responses had been collected
C4_Witness ==
    /\ xf_pc = "done"
    /\ xf_ret = Some(Err(TimeoutError))
    /\ rx_pc = "running"
    /\ Len(responses) >= 1
    /\ ~HasNonZero(responses)
    /\ AllWords(responses) # <<>>

\* ---- C5 ----
\* C5: the text of a successful streaming transcribe is the concatenation of
\* every candidate word of every collected response, in arrival, ws and cw order.
C5_TextIsAllWords ==
    (xf_pc = "done" /\ xf_ret.some /\ xf_ret.v.ok) =>
        xf_ret.v.v.text = AllWords(responses)

\* a success over two responses, one of them with several words and candidates
C5_Witness ==
    /\ xf_pc = "done"
    /\ xf_ret.some
    /\ xf_ret.v.ok
    /\ Len(responses) = 2
    /\ xf_ret.v.v.text = <<"a", "b", "c", "d", "e">>

\* ---- C6 ----
\* C6 as stated: whenever a collected response has a non-zero code, transcribe
\* returns the backend error with the code and message of the first of them.
C6_Original ==
    [][ (Returns /\ HasNonZero(responses)) =>
           xf_ret' = Some(Err(BackendError(FirstNonZero(responses)))) ]_vars

\* C6 (amended): when a collected response has a non-zero code, transcribe never
\* returns a result; it returns the backend error with the code and message of
\* the first such response if the receive task ended within the timeout, and
\* the timeout error otherwise.
C6_NonZeroCodeFails ==
    [][ (Returns /\ HasNonZero(responses)) =>
           xf_ret' = Some(Err(IF rx_pc = "finished"
                              THEN BackendError(FirstNonZero(responses))
                              ELSE TimeoutError)) ]_vars

\* two failed responses were collected and the first decided
C6_Witness ==
    /\ xf_pc = "done"
    /\ Len(responses) = 2
    /\ responses[1].code # 0
    /\ responses[2].code # 0
    /\ responses[1].code # responses[2].code
    /\ xf_ret = Some(Err(BackendError(responses[1])))

\* a response with words and a failed one were collected, and the call failed
C6_WordsThenErrorReached ==
    /\ xf_pc = "done"
    /\ Len(responses) = 2
    /\ WordsOf(responses[1]) # <<>>
    /\ responses[1].code = 0
    /\ xf_ret = Some(Err(BackendError(responses[2])))

C8_SendErrorOnlyWithoutResponses ==
    [][ (Returns /\ send_error.some /\ rx_pc = "finished") =>
           /\ xf_ret'.some
           /\ IF responses = <<>> THEN xf_ret'.v = Err(send_error.v)
              ELSE IF HasNonZero(responses)
                   THEN xf_ret'.v = Err(BackendError(FirstNonZero(responses)))
                   ELSE xf_ret'.v.ok /\ xf_ret'.v.v.text = AllWords(responses)
      ]_vars

\* a send failed, yet the call succeeded with the words that came back
C8_Witness ==
    /\ xf_pc = "done"
    /\ send_error.some
    /\ xf_ret.some
    /\ xf_ret.v.ok
    /\ xf_ret.v.v.text # <<>>

\* a send failed, nothing came back, and the call failed with the send error
C8_SendErrorReturnedReached ==
    /\ xf_pc = "done"
    /\ send_error.some
    /\ responses = <<>>
    /\ rx_pc = "finished"
    /\ xf_ret = Some(Err(send_error.v))

\* ---- C9 ----
\* what a complete send loop over n chunks does: send 0, sleep, send 1, ...,
\* sleep, send n-1
IdealTrace(n) ==
    [k \in 1..(2 * n - 1) |->
        IF k % 2 = 1 THEN <<"send", (k - 1) \div 2>> ELSE <<"sleep", 45>>]
\* C9: the send loop sends the frames in increasing chunk order, each once and
\* none skipped, with one 45 ms sleep after every send but the last; a loop
\* that ended without a send error has sent them all.
C9_SendOrderAndPacing ==
    LET n == (2 * Len(xf_audio) + FRAME_SIZE - 1) \div FRAME_SIZE
        ideal == IdealTrace(n)
        sends == {k \in 1..Len(xf_trace) : xf_trace[k][1] = "send"}
    IN  /\ Len(xf_trace) <= Len(ideal)
        /\ xf_trace = SubSeq(ideal, 1, Len(xf_trace))
        /\ Len(wire) = Cardinality(sends)
        /\ (xf_pc \in {"join", "done"} /\ rx_pc # "idle" /\ ~send_error.some) =>
              xf_trace = ideal

\* three frames went out with two sleeps between them
C9_Witness ==
    /\ xf_pc = "done"
    /\ ~send_error.some
    /\ xf_trace = << <<"send", 0>>, <<"sleep", 45>>, <<"send", 1>>, <<"sleep", 45>>,
                     <<"send", 2>> >>

\* ---- C10 ----
\* C10: in Both mode the clipboard write is the first side effect of the call
\* and the only one of its kind; whenever keystrokes are being simulated the
\* clipboard already holds the text.
C10_ClipboardBeforeKeys ==
    (out_mode = "Both" /\ out_calls > 0) =>
        /\ \A k \in 1..Len(out_log) :
              IF k = 1 THEN out_log[k] = <<"set_text", out_text>>
              ELSE out_log[k][1] = "key"
        /\ out_pc = "type" => (Len(out_log) >= 1 /\ clipboard = Some(out_text))
        /\ out_pc # "copy" => (out_typed = Len(out_log) - 1 \/ out_log = <<>>)

\* a two-character text was copied, then typed
C10_Witness ==
    /\ out_mode = "Both"
    /\ out_pc = "idle"
    /\ out_ret = Some(Ok(<<>>))
    /\ out_log = << <<"set_text", <<"h", "i">> >>, <<"key", "h">>, <<"key", "i">> >>
    /\ focus = <<"h", "i">>

\* ---- helpers of the claims about the batch backend ----
BaiduError(resp) ==
    [kind |-> "AsrError", detail |-> <<"baidu ASR error", resp.err_no, resp.err_msg>>]
\* a segment spanning the whole text, without timestamps
FullSpanSegment(text) == [start |-> 0, end |-> 0, text |-> text]

\* ---- C11 ----
\* C11: when the batch backend's response parses with err_no = 0, transcribe
\* returns a result whose text is the strings of `result` put together in list
\* order with nothing between them (the empty text for an absent or empty list).
C11_TextIsJoinedResult ==
    (bd_resp.some /\ bd_resp.v.err_no = 0) =>
        /\ bd_ret.some
        /\ bd_ret.v.ok
        /\ bd_ret.v.v.text = Flat(bd_resp.v.result)

\* the response ["ni", "hao"] gave the text "nihao"
C11_Witness ==
    /\ bd_pc = "idle"
    /\ bd_resp.some
    /\ bd_resp.v.err_no = 0
    /\ bd_resp.v.result = <<StrNi, StrHao>>
    /\ bd_ret.some
    /\ bd_ret.v.ok
    /\ bd_ret.v.v.text = <<"n", "i", "h", "a", "o">>

\* a response without strings gave the empty text
C11_EmptyReached ==
    /\ bd_pc = "idle"
    /\ bd_resp.some
    /\ bd_resp.v.err_no = 0
    /\ bd_resp.v.result = <<>>
    /\ bd_ret.some
    /\ bd_ret.v.ok
    /\ bd_ret.v.v.text = <<>>

\* ---- C12 ----
\* C12: when the batch backend's response parses with a non-zero err_no,
\* transcribe returns the backend error carrying that err_no and err_msg, and
\* no result, whether or not the response holds result strings.
C12_NonZeroErrNoFails ==
    (bd_resp.some /\ bd_resp.v.err_no # 0) =>
        bd_ret = Some(Err(BaiduError(bd_resp.v)))

\* a response with err_no 3302 and a result string failed with that code
C12_Witness ==
    /\ bd_pc = "idle"
    /\ bd_resp.some
    /\ bd_resp.v.err_no = 3302
    /\ bd_resp.v.result # <<>>
    /\ bd_ret.some
    /\ ~bd_ret.v.ok
    /\ bd_ret.v.v.detail = <<"baidu ASR error", 3302, "authentication failed.">>

\* ---- helpers of the claims about the recorder's calls ----
\* a step of the control thread: the audio callback does nothing in it
ControlStep ==
    /\ cb_pc' = cb_pc
    /\ cb_data' = cb_data
    /\ blocks' = blocks
    /\ volume_level' = volume_level

\* ---- C13 ----
\* C13: a call made while recording that is neither stop nor cancel, that is
\* start(), returns Ok at once and leaves the samples, the recording flag, the
\* start time and the stream as they were.
C13_StartWhileRecordingIsNoop ==
    [][ (rec_pc = "idle" /\ is_recording /\ ControlStep
           /\ rec_pc' \notin {"stop_drop", "cancel_drop"}) =>
          /\ rec_pc' = "idle"
          /\ rec_ret' = RetOk("start", <<>>)
          /\ samples' = samples
          /\ is_recording' = is_recording
          /\ start_time' = start_time
          /\ stream' = stream ]_vars

\* start() returned at once on a session that had already recorded samples
C13_Witness ==
    /\ noop_start
    /\ rec_pc = "idle"
    /\ rec_ret = RetOk("start", <<>>)
    /\ is_recording
    /\ stream.some
    /\ start_time.some
    /\ samples # <<>>

\* ---- C14 ----
\* C14: a call made while not recording that is neither start nor cancel, that
\* is stop(), returns the NotRecording error at once and leaves the recording
\* flag, the samples and the stream as they were.
C14_StopWhileIdleFails ==
    [][ (rec_pc = "idle" /\ ~is_recording /\ ControlStep
           /\ rec_pc' \notin {"start_open", "cancel_drop"}) =>
          /\ rec_pc' = "idle"
          /\ rec_ret' = RetErr("stop", "NotRecording")
          /\ is_recording' = is_recording
          /\ samples' = samples
          /\ stream' = stream ]_vars

\* stop() failed on a recorder that was stopped before and still holds the
\* samples of that session
C14_Witness ==
    /\ rec_pc = "idle"
    /\ rec_ret = RetErr("stop", "NotRecording")
    /\ sessions >= 1
    /\ ~is_recording
    /\ ~stream.some
    /\ samples # <<>>

\* stop() failed on a recorder that never started
C14_BeforeStartReached ==
    /\ rec_pc = "idle"
    /\ rec_ret = RetErr("stop", "NotRecording")
    /\ sessions = 0

CancelLeavesIdle ==
    (rec_pc \in {"idle", "start_open"} /\ rec_ret.op = "cancel") =>
        (~is_recording /\ ~stream.some)

\* cancel() has returned and the buffer holds the block of a callback that had
\* passed its flag check before
C15_StaleSamplesReached ==
    /\ rec_pc = "idle"
    /\ rec_ret.op = "cancel"
    /\ cb_pc = "idle"
    /\ samples # <<>>

\* ---- C16 ----
\* C16: a transcriber configured with a fixed language hands exactly that
\* language to the engine, never asks for detection and never reads the
\* detected language, and every result it returns names the configured
\* language; the detected language is read only with the "auto" configuration,
\* which leaves the engine's language setting untouched.
C16_FixedLanguageIsForced ==
    /\ wh_params.detect_language = "<engine default>"
    /\ wh_params.language # "auto"
    /\ wh_queried => wh_language = "auto"
    /\ (wh_language # "auto" /\ wh_calls > 0) => wh_params.language = wh_language
    /\ (wh_language # "auto" /\ wh_ret.some /\ wh_ret.v.ok) =>
          wh_ret.v.v.language = Some(wh_language)
    /\ wh_language = "auto" =>
          /\ wh_params.language = "<engine default>"
          /\ (wh_ret.some /\ wh_ret.v.ok) => wh_queried

\* a transcriber fixed to "zh" returned "zh" although the engine's state named
\* another language
C16_Witness ==
    /\ wh_language = "zh"
    /\ wh_pc = "idle"
    /\ wh_ret.some
    /\ wh_ret.v.ok
    /\ wh_engine.lang = Ok(0)
    /\ wh_params.language = "zh"
    /\ wh_ret.v.v.language = Some("zh")
    /\ ~wh_queried

\* a transcriber set to "auto" returned the language the engine detected
C16_AutoReached ==
    /\ wh_language = "auto"
    /\ wh_queried
    /\ wh_ret.some
    /\ wh_ret.v.ok
    /\ wh_ret.v.v.language = Some("en")

\* ---- C17 ----
\* C17: the cache of the instance the caller holds is empty in every state;
\* every call starts its token exchange on an empty cache and performs exactly
\* one exchange of its own, and every request submitted carries the token of
\* the exchange made by the same call.
C17_FreshExchangePerCall ==
    /\ bd_cached = None
    /\ bd_pc = "get_token" => bd_client = None
    /\ Len(bd_exchanges) = IF bd_pc = "get_token" THEN bd_calls - 1 ELSE bd_calls
    /\ \A k \in 1..Len(bd_exchanges) : bd_exchanges[k].call = k
    /\ \A k \in 1..Len(bd_posts) :
          bd_exchanges[bd_posts[k].call].token = Some(bd_posts[k].request.token)

\* two calls were made, each with the token of its own exchange
C17_Witness ==
    /\ bd_pc = "idle"
    /\ bd_calls = 2
    /\ Len(bd_exchanges) = 2
    /\ Len(bd_posts) = 2
    /\ bd_posts[1].request.token # bd_posts[2].request.token
    /\ bd_cached = None

C18_OneSegmentReached ==
    /\ xf_pc = "done"
    /\ xf_ret.some
    /\ xf_ret.v.ok
    /\ xf_ret.v.v.text = <<"a">>
    /\ xf_ret.v.v.segments = << FullSpanSegment(<<"a">>) >>

\* ---- C19 ----
\* C19 as stated: every successful batch result has a single segment, with
\* zero timestamps, holding the result text.
C19_Original ==
    (bd_ret.some /\ bd_ret.v.ok) =>
        bd_ret.v.v.segments = << FullSpanSegment(bd_ret.v.v.text) >>

\* What the batch backend returns instead: no segment at all.
BaiduSegmentsAsBuilt ==
    (bd_ret.some /\ bd_ret.v.ok) => bd_ret.v.v.segments = <<>>

\* a successful batch result with text and without segments
C19_NoSegmentReached ==
    /\ bd_ret.some
    /\ bd_ret.v.ok
    /\ bd_ret.v.v.text # <<>>
    /\ bd_ret.v.v.segments = <<>>

\* ---- C20 ----
\* C20: when the receive loop reads a text message that does not parse, it
\* logs the failure and nothing else happens: the responses stay as they are,
\* the loop goes on and transcribe has not returned because of it; a text
\* message that parses is appended to the responses whatever was skipped
\* before it; and a call whose receive loop ended having collected no non-zero
\* code does not fail, however many messages were skipped.
C20_UnparseableTextIsSkipped ==
    [][ /\ (rx_count' = rx_count + 1 /\ rx_last'.v.type = "Text") =>
              IF Parses(rx_last'.v.json)
              THEN /\ responses' = Append(responses, FromJson(rx_last'.v.json))
                   /\ rx_parse_errors' = rx_parse_errors
              ELSE /\ responses' = responses
                   /\ rx_parse_errors' = rx_parse_errors + 1
                   /\ rx_pc' = "running"
                   /\ xf_ret' = xf_ret
                   /\ xf_pc' = xf_pc
        /\ (Returns /\ rx_pc = "finished" /\ ~send_error.some /\ ~HasNonZero(responses)) =>
              (xf_ret'.some /\ xf_ret'.v.ok /\ xf_ret'.v.v.text = AllWords(responses))
      ]_vars

\* a text that did not parse was skipped, the final response after it was
\* collected, and the call succeeded with its words
C20_Witness ==
    /\ xf_pc = "done"
    /\ rx_count = 2
    /\ rx_parse_errors = 1
    /\ Len(responses) = 1
    /\ rx_last.some
    /\ rx_last.v.type = "Text"
    /\ Parses(rx_last.v.json)
    /\ xf_ret.some
    /\ xf_ret.v.ok
    /\ xf_ret.v.v.text = <<"b", "c", "d", "e">>

\* only texts that did not parse were read before the close, and the call
\* returned an empty result
C20_OnlyUnparseableReached ==
    /\ xf_pc = "done"
    /\ rx_count = 2
    /\ rx_parse_errors = 1
    /\ responses = <<>>
    /\ rx_pc = "finished"
    /\ xf_ret.some
    /\ xf_ret.v.ok

\* ---- C21 ----
\* C21 as stated: when the receive loop has ended on a transport receive
\* error, transcribe returns an error.
C21_Original ==
    [][ (Returns /\ xf_pc = "join" /\ rx_pc = "finished"
           /\ rx_last.some /\ rx_last.v.type = "Err") => ~xf_ret'.v.ok ]_vars

\* What the code does instead: a receive error ends the loop like a close
\* frame does, and the call is judged on the send error and the responses
\* collected before it.
ReceiveErrorAsBuilt ==
    [][ (Returns /\ xf_pc = "join" /\ rx_pc = "finished") =>
           xf_ret'.v = (IF send_error.some /\ responses = <<>> THEN Err(send_error.v)
                        ELSE IF HasNonZero(responses)
                        THEN Err(BackendError(FirstNonZero(responses)))
                        ELSE Ok([text |-> AllWords(responses), language |-> Some("zh"),
                                 confidence |-> None,
                                 segments |-> IF AllWords(responses) = <<>> THEN <<>>
                                              ELSE << FullSpanSegment(AllWords(responses)) >>]))
      ]_vars

\* the receive loop ended on a receive error before anything was collected,
\* and the call returned an empty result
C21_SwallowedReached ==
    /\ xf_pc = "done"
    /\ rx_pc = "finished"
    /\ rx_last.some
    /\ rx_last.v.type = "Err"
    /\ responses = <<>>
    /\ xf_ret.some
    /\ xf_ret.v.ok
    /\ xf_ret.v.v.text = <<>>

\* ---- C22 ----
\* the frames the audio of the call is split into: 1280 bytes a frame, two
\* bytes a sample
FrameCount == (2 * Len(xf_audio) + 1279) \div 1280

\* the time the send loop sleeps for n chunks when it runs to its end
SendLoopSleep(n) == IF n = 0 THEN 0 ELSE (n - 1) * 45

\* C22 as stated: transcribe returns within 30 s of the connection.
C22_Original ==
    (xf_pc = "done" /\ rx_pc # "idle") => xf_clock <= 30000

\* C22 (amended): the 30 s window bounds the wait that follows the send loop,
\* not the send loop: the wait for the receive task never lasts more than
\* 30 s, a call that times out returns exactly 30 s after its send loop ended,
\* and the whole call lasts at most the send loop's sleeps plus 30 s.
C22_WaitIsBounded ==
    [][ /\ (Returns /\ xf_pc = "join") =>
              /\ xf_clock' - xf_clock <= 30000
              /\ rx_pc = "running" => xf_clock' - xf_clock = 30000
        /\ xf_clock' <= SendLoopSleep(FrameCount) + 30000
        /\ xf_pc # "join" => xf_clock' - xf_clock \in {0, 45}
      ]_vars

\* a call of three frames timed out 30.09 s after it connected
C22_Witness ==
    /\ xf_pc = "done"
    /\ Len(wire) = 3
    /\ xf_ret = Some(Err(TimeoutError))
    /\ xf_clock = 30090

\* ---- C23 ----
\* C23 as stated: the timeout of the wait is returned as a NetworkError.
C23_Original ==
    [][ (Returns /\ xf_pc = "join" /\ rx_pc = "running") =>
           (~xf_ret'.v.ok /\ xf_ret'.v.v.kind = "NetworkError") ]_vars

\* What the code does instead: the timeout is returned as an AsrError, the
\* kind of the backend's own failures; connection and send failures are
\* NetworkErrors.
TimeoutKindAsBuilt ==
    [][ /\ (Returns /\ xf_pc = "join" /\ rx_pc = "running") =>
              (~xf_ret'.v.ok /\ xf_ret'.v.v.kind = "AsrError")
        /\ (Returns /\ xf_pc = "connect") => xf_ret'.v.v.kind = "NetworkError"
        /\ send_error'.some => send_error'.v.kind = "NetworkError"
      ]_vars

\* a call timed out and returned an AsrError
C23_TimeoutReached ==
    /\ xf_pc = "done"
    /\ rx_pc = "running"
    /\ xf_ret.some
    /\ ~xf_ret.v.ok
    /\ xf_ret.v.v.kind = "AsrError"

\* ---- C24 ----
\* output returned an error in this step
OutputFails == out_pc # "idle" /\ out_pc' = "idle" /\ out_ret'.some /\ ~out_ret'.v.ok

\* the keystrokes recorded in a log of the operations on the OS
KeysIn(log) == { i \in 1..Len(log) : log[i][1] = "key" }

\* C24: output stops at the first failure and reports it with its own kind: a
\* failure of the copy is a ClipboardError and no keystroke of that call was
\* or is simulated, a failure of the keystrokes is a KeyboardError; a call in
\* Type mode leaves the clipboard alone and a call in Clipboard mode sends no
\* keystroke.
C24_FailureKinds ==
    [][ /\ (OutputFails /\ out_pc = "copy") =>
              /\ out_ret'.v.v.kind = "ClipboardError"
              /\ KeysIn(out_log') = {}
              /\ focus' = focus
              /\ clipboard' = clipboard
        /\ (OutputFails /\ out_pc = "type") =>
              /\ out_ret'.v.v.kind = "KeyboardError"
              /\ focus' = focus
              /\ out_mode = "Both" => out_log[1] = <<"set_text", out_text>>
        /\ out_mode' = "Type" => clipboard' = clipboard
        /\ out_mode' = "Clipboard" => (focus' = focus /\ KeysIn(out_log') = {})
        /\ out_pc = "idle" => (out_pc' # "idle" /\ out_calls' = out_calls + 1)
      ]_vars

\* a call in Both mode with a text to type failed at the clipboard: nothing
\* was typed
C24_Witness ==
    /\ out_pc = "idle"
    /\ out_mode = "Both"
    /\ out_text # <<>>
    /\ out_ret.some
    /\ ~out_ret.v.ok
    /\ out_ret.v.v.kind = "ClipboardError"
    /\ out_log = <<>>
    /\ out_typed = 0

\* a call in Both mode copied the text and failed at a keystroke
C24_KeyboardFailureReached ==
    /\ out_pc = "idle"
    /\ out_mode = "Both"
    /\ out_ret.some
    /\ ~out_ret.v.ok
    /\ out_ret.v.v.kind = "KeyboardError"
    /\ clipboard = Some(out_text)
    /\ out_typed < Len(out_text)

\* a call in Clipboard mode returned Ok and a call in Type mode typed its text
\* with the clipboard still empty
C24_SingleModesReached ==
    /\ out_pc = "idle"
    /\ out_ret = Some(Ok(<<>>))
    /\ \/ out_mode = "Clipboard" /\ clipboard = Some(out_text) /\ focus = <<>> /\ out_text # <<>>
       \/ out_mode = "Type" /\ clipboard = None /\ focus = out_text /\ out_text # <<>>

\* ---- helpers of the claims about the polls ----
\* a get_volume or get_duration call returned in this step
PollStep == poll_ret' # poll_ret

\* everything of the recorder but the record of the last poll
RecorderState ==
    <<is_recording, samples, volume_level, start_time, stream, rec_pc, rec_ret,
      cb_pc, cb_data, blocks, sessions, elapsed>>

\* the block is over range: the average magnitude of its samples exceeds 1.0
OverRange(data) == data # <<>> /\ SumAbs(data, 1, Len(data)) > 1000 * Len(data)

\* ---- C25 ----
\* C25: get_volume and get_duration never wait for the sample-buffer mutex:
\* whenever the owner is between two calls each of them can complete, also
\* while the audio callback holds the mutex, and a poll changes nothing of
\* the recorder: it returns the stored level, or the time since the last
\* effective start (0 before the first).
C25_PollsNeverBlock ==
    /\ [](rec_pc = "idle" => (ENABLED GetVolume /\ ENABLED GetDuration))
    /\ [][ PollStep =>
             /\ UNCHANGED RecorderState
             /\ poll_ret'.op = "get_volume" => poll_ret'.value = volume_level
             /\ poll_ret'.op = "get_duration" =>
                   poll_ret'.value = (IF sessions = 0 THEN 0 ELSE elapsed)
             /\ poll_ret'.locked = (cb_pc = "locked")
       ]_vars

\* get_volume returned the level of the running callback's block while that
\* callback held the buffer mutex
C25_Witness ==
    /\ poll_ret.op = "get_volume"
    /\ poll_ret.locked
    /\ cb_pc = "locked"
    /\ cb_data # <<>>
    /\ poll_ret.value = volume_level
    /\ is_recording

\* get_duration returned while the callback held the buffer mutex
C25_DurationReached ==
    /\ poll_ret.op = "get_duration"
    /\ poll_ret.locked
    /\ cb_pc = "locked"
    /\ poll_ret.value = 25

\* ---- C26 ----
\* C26: only stop() and cancel() end a session: the recording flag goes from
\* true to false in the first step of one of them and in no other step; the
\* passing of time changes neither the flag, the stream nor the buffer; and
\* a callback that finds the flag true appends its block, however long the
\* session has lasted.
C26_NoAutomaticStop ==
    [][ /\ (is_recording /\ ~is_recording') =>
              (rec_pc = "idle" /\ rec_pc' \in {"stop_drop", "cancel_drop"})
        /\ elapsed' > elapsed =>
              (is_recording' = is_recording /\ stream' = stream /\ samples' = samples)
        /\ (is_recording /\ blocks' = blocks + 1) => cb_pc' = "volume"
        /\ (cb_pc = "locked" /\ cb_pc' = "idle") =>
              samples' = samples \o ToI16Samples(cb_data)
      ]_vars

\* a session has lasted longer than MAX_RECORDING_DURATION: the flag is still
\* true, the stream is held, samples were recorded and the callback is about
\* to append another block
C26_Witness ==
    /\ elapsed > MAX_RECORDING_DURATION
    /\ elapsed > 60
    /\ is_recording
    /\ stream.some
    /\ samples # <<>>
    /\ cb_pc = "locked"
    /\ cb_data # <<>>

\* ---- C27 ----
\* C27: the stored volume level is an integer in 0..100 in every state, and so
\* is every value get_volume returns; the callback stores 100 for an empty
\* block and for a block whose average magnitude exceeds 1.0.
C27_VolumeInRange ==
    /\ volume_level \in 0..100
    /\ poll_ret.op = "get_volume" => poll_ret.value \in 0..100
    /\ (cb_pc \in {"extend", "locked"} /\ (cb_data = <<>> \/ OverRange(cb_data))) =>
          volume_level = 100

\* get_volume returned 100 after the callback stored the level of an
\* over-range block (the first block since construction)
C27_Witness ==
    /\ poll_ret = [op |-> "get_volume", value |-> 100, locked |-> FALSE]
    /\ cb_pc = "extend"
    /\ OverRange(cb_data)
    /\ sessions = 1
    /\ blocks = 1

\* the callback stored 100 for an empty block
C27_EmptyBlockReached ==
    /\ cb_pc = "extend"
    /\ cb_data = <<>>
    /\ volume_level = 100
    /\ sessions = 1
    /\ blocks = 1

\* a level below the cap was stored and returned
C27_QuietBlockReached ==
    /\ poll_ret.op = "get_volume"
    /\ poll_ret.value = 50
    /\ volume_level = 50

\* ---- C28 ----
\* C28: when a stop() that found the recorder recording returns, with an
\* AudioBuffer or with RecordingTooShort, the flag is false and no stream is
\* held; the call that follows it is a stop() that fails with NotRecording, a
\* start() that clears the buffer and opens a new session, or a cancel().
C28_StopEndsSession ==
    [][ /\ (rec_pc = "stop_lock" /\ rec_pc' = "idle") =>
              /\ rec_ret'.op = "stop"
              /\ rec_ret'.ok \/ rec_ret'.err = "RecordingTooShort"
              /\ ~is_recording'
              /\ ~stream'.some
        /\ (rec_pc = "idle" /\ rec_ret.op = "stop" /\ ControlStep) =>
              \/ rec_pc' = "idle" /\ rec_ret' = RetErr("stop", "NotRecording")
                   /\ ~is_recording' /\ ~stream'.some
              \/ rec_pc' = "start_open" /\ samples' = <<>>
              \/ rec_pc' = "cancel_drop"
        /\ (rec_pc = "start_open" /\ rec_pc' = "idle" /\ rec_ret'.ok) =>
              (is_recording' /\ stream'.some /\ sessions' = sessions + 1)
      ]_vars

\* a stop() that found the recorder recording returned RecordingTooShort: the
\* session is over
C28_Witness ==
    /\ rec_pc = "idle"
    /\ rec_ret = RetErr("stop", "RecordingTooShort")
    /\ ~is_recording
    /\ ~stream.some
    /\ sessions = 1

\* the same after a stop() that returned the audio
C28_AudioReached ==
    /\ rec_pc = "idle"
    /\ rec_ret.op = "stop"
    /\ rec_ret.ok
    /\ ~is_recording
    /\ ~stream.some

\* a second session was started after a too-short stop()
C28_RestartReached ==
    /\ rec_pc = "start_open"
    /\ rec_ret = RetErr("stop", "RecordingTooShort")
    /\ samples = <<>>
    /\ sessions = 1

StopReturnsBuffer ==
    [][ /\ (rec_pc = "stop_lock" /\ rec_pc' = "idle" /\ rec_ret'.ok) =>
              rec_ret'.audio.samples = samples
        /\ (rec_pc = "idle" /\ rec_pc' = "start_open") => samples' = <<>>
        /\ (~is_recording /\ blocks' = blocks + 1) =>
              (cb_pc' = "idle" /\ samples' = samples)
      ]_vars

\* the second session's stop() returned audio that starts with the block of a
\* callback of the first session
C29_StaleAudioReached ==
    /\ rec_pc = "idle"
    /\ rec_ret.op = "stop"
    /\ rec_ret.ok
    /\ stale
    /\ sessions = 2
    /\ blocks = 1
    /\ Len(rec_ret.audio.samples) = 2 * (MinValidSamples \div 2)

\* ---- C30 ----
\* C30: a start() that fails leaves the recorder idle: when it returns the
\* flag is false, no stream is held and no session was counted, and a stop()
\* that follows fails with NotRecording; the buffer was cleared before the
\* failure, when start() found the flag false.
C30_FailedStartStaysIdle ==
    [][ /\ (rec_pc = "idle" /\ rec_pc' = "start_open") => samples' = <<>>
        /\ (rec_pc = "start_open" /\ rec_pc' = "idle" /\ ~rec_ret'.ok) =>
              /\ rec_ret'.op = "start"
              /\ rec_ret'.err \in {"NoMicrophoneFound", "RecorderError"}
              /\ ~is_recording'
              /\ ~stream'.some
              /\ sessions' = sessions
              /\ start_time' = start_time
        /\ (rec_pc = "idle" /\ rec_ret.op = "start" /\ ~rec_ret.ok /\ ControlStep
              /\ rec_pc' \notin {"start_open", "cancel_drop"}) =>
              rec_ret' = RetErr("stop", "NotRecording")
      ]_vars

\* a start() after a session that had recorded a sample failed: the recorder
\* is idle and its buffer empty
C30_Witness ==
    /\ rec_pc = "idle"
    /\ rec_ret = RetErr("start", "NoMicrophoneFound")
    /\ ~is_recording
    /\ ~stream.some
    /\ sessions = 1
    /\ volume_level = 50
    /\ samples = <<>>

\* ---- C31 ----
\* C31: the send loop does not look at the receive task: whether that task
\* runs or has ended, the loop leaves a frame only by attempting to send it,
\* sleeps 45 ms after every frame but the last, and reaches the wait for the
\* receive task only when every frame was written or a send has failed;
\* transcribe returns from that wait, never from inside the loop.
C31_SendLoopIgnoresReceiver ==
    [][ /\ (xf_pc = "send" /\ xf_pc' # "send") =>
              \/ /\ Len(wire') = Len(wire) + 1
                 /\ send_error' = send_error
                 /\ xf_pc' = (IF Len(wire') < FrameCount THEN "sleep" ELSE "join")
              \/ /\ wire' = wire
                 /\ ~send_error.some
                 /\ send_error'.some
                 /\ xf_pc' = "join"
        /\ (xf_pc = "sleep" /\ xf_pc' # "sleep") =>
              (xf_pc' = "send" /\ xf_clock' = xf_clock + 45 /\ wire' = wire)
        /\ (xf_pc \in {"send", "sleep"} /\ xf_pc' = xf_pc) =>
              (wire' = wire /\ send_error' = send_error /\ xf_i' = xf_i)
        /\ Returns => xf_pc \in {"connect", "join"}
        /\ (Returns /\ xf_pc = "join") => (Len(wire) = FrameCount \/ send_error.some)
      ]_vars

\* the receive task has ended on a close frame with one of three frames
\* written, and the send loop is in its pacing sleep before the second
C31_Witness ==
    /\ rx_pc = "finished"
    /\ rx_last.some
    /\ rx_last.v.type = "Close"
    /\ xf_pc = "sleep"
    /\ FrameCount = 3
    /\ Len(wire) = 1
    /\ ~send_error.some

\* the receive task ended on a receive error before the first frame was
\* written, and the call returned with all three frames written
C31_AllSentReached ==
    /\ xf_pc = "done"
    /\ rx_pc = "finished"
    /\ rx_count = 1
    /\ rx_last.v.type = "Err"
    /\ FrameCount = 3
    /\ Len(wire) = 3
    /\ xf_clock = 90

\* ---- C32 ----
\* the token exchange failed: the request did not get through, the HTTP
\* status was not a success, or the body is not a token response
ExchangeFailed(reply) ==
    \/ ~reply.sent
    \/ ~reply.success
    \/ ~({"access_token", "expires_in"} \subseteq DOMAIN reply.body)

\* C32: when the token exchange of a call fails, transcribe returns an error
\* (a NetworkError for a transport failure, an AsrAuthError otherwise) in the
\* same step, submits no transcription request, and no token is cached, in
\* the call's own client or in the caller's; a request is submitted only by a
\* call whose exchange succeeded.
C32_FailedExchangeEndsCall ==
    [][ (bd_pc = "get_token" /\ bd_pc' # "get_token") =>
           LET exchange == bd_exchanges'[Len(bd_exchanges')]
           IN  /\ Len(bd_exchanges') = Len(bd_exchanges) + 1
               /\ exchange.call = bd_calls
               /\ IF ExchangeFailed(exchange.reply)
                  THEN /\ bd_pc' = "idle"
                       /\ bd_ret'.some
                       /\ ~bd_ret'.v.ok
                       /\ bd_ret'.v.v.kind =
                             (IF exchange.reply.sent THEN "AsrAuthError" ELSE "NetworkError")
                       /\ bd_posts' = bd_posts
                       /\ \A k \in 1..Len(bd_posts) : bd_posts[k].call # bd_calls
                       /\ bd_client' = None
                       /\ bd_cached' = None
                       /\ exchange.token = None
                  ELSE /\ bd_pc' = "post"
                       /\ bd_token' = exchange.reply.body.access_token
      ]_vars

\* a call whose token endpoint answered with a non-success status and a
\* well-formed token body returned an AsrAuthError and posted nothing, after
\* an earlier call had gone through
C32_Witness ==
    /\ bd_pc = "idle"
    /\ bd_calls = 2
    /\ Len(bd_exchanges) = 2
    /\ bd_exchanges[2].reply.sent
    /\ ~bd_exchanges[2].reply.success
    /\ DOMAIN bd_exchanges[2].reply.body = {"access_token", "expires_in"}
    /\ bd_ret.some
    /\ ~bd_ret.v.ok
    /\ bd_ret.v.v.kind = "AsrAuthError"
    /\ Len(bd_posts) = 1
    /\ bd_posts[1].call = 1
    /\ bd_client = None
    /\ bd_cached = None

\* a call failed on a transport failure of the token request
C32_TransportFailureReached ==
    /\ bd_pc = "idle"
    /\ bd_calls = 1
    /\ ~bd_exchanges[1].reply.sent
    /\ bd_ret = Some(Err(VoiceError("NetworkError", <<"token request failed">>)))
    /\ bd_posts = <<>>

\* a call failed on a token body without expires_in
C32_BodyFailureReached ==
    /\ bd_pc = "idle"
    /\ bd_calls = 1
    /\ bd_exchanges[1].reply.success
    /\ DOMAIN bd_exchanges[1].reply.body = {"access_token"}
    /\ bd_ret.some
    /\ ~bd_ret.v.ok
    /\ bd_ret.v.v.kind = "AsrAuthError"
    /\ bd_posts = <<>>

\* ---- helpers of the claims about the workspace manager ----
Defaults(rows) == { r \in rows : r.is_default }

\* the clone c's call returns in this step
WsReturns(c) == ws_pc[c] # "idle" /\ ws_pc'[c] = "idle"

\* the ids of the workspaces marked default
DefaultIds(rows) == { r.id : r \in Defaults(rows) }

\* the clone c's call takes a step
WsSteps(c) == ws_pc'[c] # ws_pc[c] \/ (ws_ret'.caller = c /\ ws_ret' # ws_ret)

\* ---- C33 ----
\* C33: in every state at most one stored workspace is marked default; the
\* row a create inserts and the workspace it returns are not default, and
\* neither update nor delete marks a workspace; and when set_default(id)
\* returns Ok, the workspace id is stored and is the one workspace marked
\* default.
C33_AtMostOneDefault ==
    /\ [](Cardinality(Defaults(ws_rows)) <= 1)
    /\ [][ \A c \in Callers :
              /\ (ws_pc[c] = "create_insert" /\ WsReturns(c)) =>
                    /\ ws_ret'.result.ok
                    /\ ~ws_ret'.result.ws.is_default
                    /\ ws_ret'.result.ws \in ws_rows'
                    /\ Defaults(ws_rows') = Defaults(ws_rows)
              /\ (ws_pc[c] = "set_default_mark" /\ WsReturns(c) /\ ws_ret'.result.ok) =>
                    /\ DefaultIds(ws_rows') = {ws_arg[c].id}
                    /\ Cardinality(Defaults(ws_rows')) = 1
              /\ (WsSteps(c) /\ ws_pc[c] # "set_default_mark") =>
                    DefaultIds(ws_rows') \subseteq DefaultIds(ws_rows)
       ]_vars

\* two workspaces are stored, set_default has just returned Ok, and the
\* second workspace is the only one marked default
C33_Witness ==
    /\ Cardinality(ws_rows) = 2
    /\ ws_ret.result.op = "set_default"
    /\ ws_ret.result.ok
    /\ DefaultIds(ws_rows) = {2}
    /\ \A c \in Callers : ws_pc[c] = "idle"

\* a create returned its workspace, not default, while another is default
C33_CreateReached ==
    /\ ws_ret.result.op = "create"
    /\ ws_ret.result.ok
    /\ ws_ret.result.ws.id = 2
    /\ ~ws_ret.result.ws.is_default
    /\ DefaultIds(ws_rows) = {1}

\* ---- C34 ----
\* C34: in every state no two stored workspaces have the same root_path; a
\* create whose path is stored when it looks it up returns the path-exists
\* error and leaves the table as it is; a create that returns Ok has added
\* its own row and nothing else; and between a create's look-up and its
\* return no other clone changes the table.
C34_RootPathsAreUnique ==
    /\ [](\A r1 \in ws_rows, r2 \in ws_rows : r1.root_path = r2.root_path => r1 = r2)
    /\ [][ \A c \in Callers :
              /\ (ws_pc[c] = "create_check" /\ WsSteps(c)
                    /\ \E r \in ws_rows : r.root_path = ws_arg[c].row.root_path) =>
                    /\ ws_pc'[c] = "idle"
                    /\ ws_ret' = Returned(c, WsResult("create", FALSE, "path exists",
                                                      NoRow, FALSE))
                    /\ ws_rows' = ws_rows
              /\ (ws_pc[c] = "create_insert" /\ WsSteps(c)) =>
                    /\ ws_rows' = ws_rows \cup {ws_arg[c].row}
                    /\ ws_arg[c].row \notin ws_rows
                    /\ ws_ret'.result.ok
              /\ (ws_pc[c] \in {"create_check", "create_insert"} /\ ~WsSteps(c)) =>
                    ws_rows' = ws_rows
       ]_vars

\* of two creates one has failed with the path-exists error, and one
\* workspace is stored
C34_Witness ==
    /\ ws_ops = 2
    /\ ws_ids = 2
    /\ Cardinality(ws_rows) = 1
    /\ ws_ret.result = WsResult("create", FALSE, "path exists", NoRow, FALSE)
    /\ ws_ret.caller = 2
    /\ \A c \in Callers : ws_pc[c] = "idle"

\* two creates for one path run on two clones: one is about to insert, the
\* other waits for the mutex
C34_ConcurrentReached ==
    /\ ws_pc[1] = "create_insert"
    /\ ws_pc[2] = "create_lock"
    /\ ws_arg[1].row.root_path = ws_arg[2].row.root_path
    /\ ws_lock = 1
    /\ ws_rows = {}

\* ---- C35 ----
\* C35: set_default first clears every default mark; when no stored workspace
\* has the id, it then returns the workspace-does-not-exist error and no
\* workspace is marked default.
C35_UnknownIdClearsDefault ==
    [][ \A c \in Callers :
           /\ (ws_pc[c] = "idle" /\ ws_pc'[c] = "set_default_mark") =>
                 /\ Defaults(ws_rows') = {}
                 /\ { r.id : r \in ws_rows' } = { r.id : r \in ws_rows }
           /\ (ws_pc[c] = "set_default_mark" /\ WsReturns(c)
                 /\ ~\E r \in ws_rows : r.id = ws_arg[c].id) =>
                 /\ ws_ret' = Returned(c, WsResult("set_default", FALSE,
                                                   "workspace does not exist", NoRow, FALSE))
                 /\ Defaults(ws_rows') = {}
                 /\ ws_rows' = ws_rows
      ]_vars

\* after a create and a set_default, a set_default has failed on an unknown
\* id: the workspace is stored and not marked default
C35_Witness ==
    /\ ws_ops = 3
    /\ ws_ids = 1
    /\ Cardinality(ws_rows) = 1
    /\ Defaults(ws_rows) = {}
    /\ ws_ret.result = WsResult("set_default", FALSE, "workspace does not exist",
                                NoRow, FALSE)
    /\ \A c \in Callers : ws_pc[c] = "idle"

\* a set_default for an unknown id is between its two statements, and the
\* workspace that was default has lost its mark
C35_ClearedReached ==
    /\ \E c \in Callers : ws_pc[c] = "set_default_mark" /\ ws_arg[c].id = 0
    /\ ws_ret.result.op = "set_default"
    /\ ws_ret.result.ok
    /\ ws_rows # {}
    /\ Defaults(ws_rows) = {}

====
